---------------------------- MODULE Spec2Model ----------------------------
(***************************************************************************)
(* The Infinidat storage modules (infini_pool, infini_vol, infini_fs,      *)
(* infini_export, infini_export_client, infini_host) as a state machine.   *)
(*                                                                         *)
(* The state is the content of the array (pools, volumes, filesystems,     *)
(* exports with their permission lists, hosts) and the record `last` of    *)
(* the latest module invocation: its parameters, the remote calls it       *)
(* issued in order (lookups with what they returned, mutating calls with   *)
(* their arguments) and the outcome it reported through exit_json or       *)
(* fail_json.  One action is one whole run of a module's main().           *)
(*                                                                         *)
(* Capacities are counted in units of 512 bytes, the largest power of two  *)
(* that divides every capacity used here (1 GB = 5^9 * 2^9 bytes), so that *)
(* the 1 TB default of create_pool fits the 32-bit integers of TLC.        *)
(***************************************************************************)
EXTENDS Integers, Sequences, FiniteSets

VARIABLES
    play,         \* the resource family the playbook of this behaviour manages
    pools,        \* array: pool name -> pool
    volumes,      \* array: volume name -> volume
    filesystems,  \* array: filesystem name -> filesystem
    exports,      \* array: export path -> export
    hosts,        \* array: host name -> host
    last,         \* the latest invocation: module, params, calls, outcome
    procs         \* invocations running at the same time: params, position

vars == <<play, pools, volumes, filesystems, exports, hosts, last, procs>>

---------------------------------------------------------------------------
(* Bounds of the model.                                                    *)

\* Longest permission list of an export, and longest client_list supplied.
MaxPerms == 2

\* Most FC ports (wwns) supplied to one host reconcile.
MaxWwns == 2

\* Largest small capacity value and largest small alignment roundup is
\* applied to (besides the capacities and alignments the modules use).
MaxCap == 24
MaxAlign == 6

---------------------------------------------------------------------------
(* Capacity: the capacity library as the modules use it.                   *)

\* `KiB` of the capacity library, in units of 512 bytes.
KiB == 2

\* The unit multipliers of the capacity strings, in units of 512 bytes.
\* An unknown unit has no multiplier (0): Capacity() raises on it.
UnitOf(u) ==
    CASE u = "KiB" -> KiB
      [] u = "MiB" -> 1024 * KiB
      [] u = "GiB" -> 1024 * 1024 * KiB
      [] u = "GB"  -> 1953125
      [] u = "TB"  -> 1953125000
      [] OTHER     -> 0

\* A capacity string "<n><u>" is the record [n, u]; None (and the empty
\* string, which the code reads the same way: both are falsy) is NoSize.
NoSize == [n |-> 0, u |-> ""]

\* Truthiness of a size parameter: `if module.params['size']`.
Given(s) == s # NoSize

\* A mutant of ValidCapacity: main does not try Capacity() on the string.
ValidCapacity_unchecked(s) == TRUE

\* Whether Capacity(s) parses (main's try/except around Capacity()).
ValidCapacity(s) == s.n > 0 /\ UnitOf(s.u) > 0

\* Capacity(s): the parsed byte count (here in 512-byte units).
Capacity(s) == s.n * UnitOf(s.u)

\* A mutant of roundup: rounding down to the boundary.
roundup_down(x, boundary) == (x \div boundary) * boundary

\* Capacity.roundup(boundary): the smallest multiple of boundary >= x.
roundup(x, boundary) == ((x + boundary - 1) \div boundary) * boundary

\* 6 * 64 * KiB, the alignment update_pool rounds to.
PoolAlign == 6 * 64 * KiB

\* 64 * KiB, the alignment create_volume / update_volume round to.
VolAlign == 64 * KiB

---------------------------------------------------------------------------
(* Names and parameter values the invocations draw from.                   *)

States == {"present", "absent"}

PoolNames == {"p1", "p2"}
VolNames == {"v1"}
FsNames == {"f1", "f2"}
ExportPaths == {"/data01"}
HostNames == {"h1"}
Clients == {"*", "10.0.0.1"}
AccessModes == {"RO", "RW"}
Wwns == {"w1", "w2"}

\* 1GB is aligned to neither boundary, 3GiB to both.
SizeArgs == {NoSize, [n |-> 1, u |-> "GB"], [n |-> 3, u |-> "GiB"]}

---------------------------------------------------------------------------
(* The call log and the outcome of an invocation.                          *)

\* One remote call: its name, its argument and, for a lookup, whether it
\* found the resource (TRUE for every other call).
Call(op, arg, ret) == [op |-> op, arg |-> arg, ret |-> ret]

\* The calls that change the array.
MutatingOps ==
    {"pools.create", "pool.update_physical_capacity",
     "pool.update_virtual_capacity", "pool.update_ssd_enabled", "pool.delete",
     "volumes.create", "volume.update_size", "volume.delete",
     "filesystems.create", "filesystem.update_size", "filesystem.delete",
     "exports.create", "export.update_permissions", "export.delete",
     "hosts.create", "host.add_fc_port", "host.map_volume", "host.delete"}

\* module.exit_json(changed=...) after `calls`, leaving the resource map `arr`.
exit_json(arr, changed, calls) ==
    [arr |-> arr, out |-> IF changed THEN "changed" ELSE "unchanged",
     msg |-> <<>>, calls |-> calls]

\* module.fail_json(msg=...) after `calls`, leaving the resource map `arr`.
fail_json(arr, msg, calls) ==
    [arr |-> arr, out |-> "failed", msg |-> msg, calls |-> calls]

\* The messages of main's `try: Capacity(...) except: fail_json(...)`.
BadSizeMsg(mod) ==
    IF mod = "pool"
    THEN <<"size (Physical Capacity) should be define in MB, GB, TB or PB units">>
    ELSE <<"size (Physical Capacity) should be defined in MB, GB, TB or PB units">>
BadVsizeMsg ==
    <<"vsize (Virtual Capacity) should be define in MB, GB, TB or PB units">>

\* How get_system ends: it returns the system ("none"); no credentials are
\* found, neither in the parameters user and password, nor in the
\* environment, nor in the ini file ("credentials"); system.login() raises
\* ("login").
SystemFaults == {"none", "credentials", "login"}

\* get_system of every module: the credentials are resolved, then
\* system.login() is called; both failures end the module through fail_json.
\* The result with out = "system" stands for the system returned.
get_system(arr, auth) ==
    CASE auth = "credentials"
           -> fail_json(arr, <<"You must set INFINIBOX_USER and INFINIBOX_PASSWORD environment variables or set username/password module arguments">>,
                        <<>>)
      [] auth = "login"
           -> fail_json(arr, <<"Infinibox authentication failed. Check your credentials">>,
                        <<Call("login", "", FALSE)>>)
      [] OTHER
           -> [arr |-> arr, out |-> "system", msg |-> <<>>,
               calls |-> <<Call("login", "", TRUE)>>]

---------------------------------------------------------------------------
(* The array: pools.                                                       *)

NoPool == [exists |-> FALSE, phys |-> 0, virt |-> 0, ssd |-> FALSE]

\* system.pools.create(name, physical_capacity, virtual_capacity): the array
\* rounds the capacities up to its own boundary (the behaviour update_pool
\* mimics) and enables the ssd cache.
pools_create(pl, name, phys, virt) ==
    [pl EXCEPT ![name] = [exists |-> TRUE,
                          phys |-> roundup(phys, PoolAlign),
                          virt |-> roundup(virt, PoolAlign),
                          ssd |-> TRUE]]

---------------------------------------------------------------------------
(* infini_pool                                                             *)

PoolParams ==
    [name : {"p1"}, state : States, size : SizeArgs, vsize : SizeArgs,
     ssd_cache : BOOLEAN]

\* get_pool: the pool named `name`, or None (a pool that does not exist).
get_pool(pl, p) == pl[p.name]

\* A mutant of create_pool: with vsize alone, the physical capacity is vsize.
create_pool_physical_from_vsize(pl, p, calls) ==
    LET oneTB == Capacity([n |-> 1, u |-> "TB"])
        phys == IF Given(p.size) THEN Capacity(p.size)
                ELSE IF Given(p.vsize) THEN Capacity(p.vsize) ELSE oneTB
        virt == IF Given(p.vsize) THEN Capacity(p.vsize)
                ELSE IF Given(p.size) THEN Capacity(p.size) ELSE oneTB
        pl1 == pools_create(pl, p.name, phys, virt)
        c1 == Append(calls, Call("pools.create",
                  [physical_capacity |-> phys, virtual_capacity |-> virt], TRUE))
    IN  IF ~p.ssd_cache
        THEN exit_json([pl1 EXCEPT ![p.name].ssd = p.ssd_cache], TRUE,
                       Append(c1, Call("pool.update_ssd_enabled", p.ssd_cache, TRUE)))
        ELSE exit_json(pl1, TRUE, c1)

\* create_pool
create_pool(pl, p, calls) ==
    LET oneTB == Capacity([n |-> 1, u |-> "TB"])
        phys == IF Given(p.size) THEN Capacity(p.size) ELSE oneTB
        virt == IF Given(p.vsize) THEN Capacity(p.vsize)
                ELSE IF Given(p.size) THEN Capacity(p.size) ELSE oneTB
        pl1 == pools_create(pl, p.name, phys, virt)
        c1 == Append(calls, Call("pools.create",
                  [physical_capacity |-> phys, virtual_capacity |-> virt], TRUE))
    IN  IF ~p.ssd_cache
        THEN exit_json([pl1 EXCEPT ![p.name].ssd = p.ssd_cache], TRUE,
                       Append(c1, Call("pool.update_ssd_enabled", p.ssd_cache, TRUE)))
        ELSE exit_json(pl1, TRUE, c1)

\* A mutant of rounded_capacity: the capacity is compared as parsed.
rounded_capacity_unrounded(size) == Capacity(size)

\* Capacity(size).roundup(6 * 64 * KiB) of update_pool.
rounded_capacity(size) == roundup(Capacity(size), PoolAlign)

\* A mutant of update_pool: the vsize branch calls update_physical_capacity.
update_pool_wrong_field(pl, p, calls) ==
    LET physical_capacity == rounded_capacity(p.size)
        virtual_capacity == rounded_capacity(p.vsize)
        pool == pl[p.name]
        upd1 == Given(p.size) /\ pool.phys # physical_capacity
        c2 == IF upd1
              THEN calls \o <<Call("pool.get_physical_capacity", "", TRUE),
                              Call("pool.update_physical_capacity", physical_capacity, TRUE)>>
              ELSE IF Given(p.size)
                   THEN Append(calls, Call("pool.get_physical_capacity", "", TRUE))
                   ELSE calls
        pl2 == IF upd1 THEN [pl EXCEPT ![p.name].phys = physical_capacity] ELSE pl
        upd2 == Given(p.vsize) /\ pool.virt # virtual_capacity
        c4 == IF upd2
              THEN c2 \o <<Call("pool.get_virtual_capacity", "", TRUE),
                           Call("pool.update_physical_capacity", virtual_capacity, TRUE)>>
              ELSE IF Given(p.vsize)
                   THEN Append(c2, Call("pool.get_virtual_capacity", "", TRUE))
                   ELSE c2
        pl4 == IF upd2 THEN [pl2 EXCEPT ![p.name].phys = virtual_capacity] ELSE pl2
        upd3 == pool.ssd # p.ssd_cache
        c6 == IF upd3
              THEN c4 \o <<Call("pool.get_ssd_enabled", "", TRUE),
                           Call("pool.update_ssd_enabled", p.ssd_cache, TRUE)>>
              ELSE Append(c4, Call("pool.get_ssd_enabled", "", TRUE))
        pl6 == IF upd3 THEN [pl4 EXCEPT ![p.name].ssd = p.ssd_cache] ELSE pl4
    IN  exit_json(pl6, upd1 \/ upd2 \/ upd3, c6)

\* A mutant of update_pool: changed is the AND across the fields.
update_pool_changed_and(pl, p, calls) ==
    LET physical_capacity == rounded_capacity(p.size)
        virtual_capacity == rounded_capacity(p.vsize)
        pool == pl[p.name]
        c1 == IF Given(p.size)
              THEN Append(calls, Call("pool.get_physical_capacity", "", TRUE))
              ELSE calls
        upd1 == Given(p.size) /\ pool.phys # physical_capacity
        c2 == IF upd1
              THEN Append(c1, Call("pool.update_physical_capacity", physical_capacity, TRUE))
              ELSE c1
        pl2 == IF upd1 THEN [pl EXCEPT ![p.name].phys = physical_capacity] ELSE pl
        c3 == IF Given(p.vsize)
              THEN Append(c2, Call("pool.get_virtual_capacity", "", TRUE))
              ELSE c2
        upd2 == Given(p.vsize) /\ pool.virt # virtual_capacity
        c4 == IF upd2
              THEN Append(c3, Call("pool.update_virtual_capacity", virtual_capacity, TRUE))
              ELSE c3
        pl4 == IF upd2 THEN [pl2 EXCEPT ![p.name].virt = virtual_capacity] ELSE pl2
        c5 == Append(c4, Call("pool.get_ssd_enabled", "", TRUE))
        upd3 == pool.ssd # p.ssd_cache
        c6 == IF upd3
              THEN Append(c5, Call("pool.update_ssd_enabled", p.ssd_cache, TRUE))
              ELSE c5
        pl6 == IF upd3 THEN [pl4 EXCEPT ![p.name].ssd = p.ssd_cache] ELSE pl4
    IN  exit_json(pl6, upd1 /\ upd2 /\ upd3, c6)

\* update_pool
update_pool(pl, p, calls) ==
    LET physical_capacity == rounded_capacity(p.size)
        virtual_capacity == rounded_capacity(p.vsize)
        pool == pl[p.name]
        \* if size: compare, update
        c1 == IF Given(p.size)
              THEN Append(calls, Call("pool.get_physical_capacity", "", TRUE))
              ELSE calls
        upd1 == Given(p.size) /\ pool.phys # physical_capacity
        c2 == IF upd1
              THEN Append(c1, Call("pool.update_physical_capacity", physical_capacity, TRUE))
              ELSE c1
        pl2 == IF upd1 THEN [pl EXCEPT ![p.name].phys = physical_capacity] ELSE pl
        \* if vsize: compare, update
        c3 == IF Given(p.vsize)
              THEN Append(c2, Call("pool.get_virtual_capacity", "", TRUE))
              ELSE c2
        upd2 == Given(p.vsize) /\ pool.virt # virtual_capacity
        c4 == IF upd2
              THEN Append(c3, Call("pool.update_virtual_capacity", virtual_capacity, TRUE))
              ELSE c3
        pl4 == IF upd2 THEN [pl2 EXCEPT ![p.name].virt = virtual_capacity] ELSE pl2
        \* ssd_cache is always compared
        c5 == Append(c4, Call("pool.get_ssd_enabled", "", TRUE))
        upd3 == pool.ssd # p.ssd_cache
        c6 == IF upd3
              THEN Append(c5, Call("pool.update_ssd_enabled", p.ssd_cache, TRUE))
              ELSE c5
        pl6 == IF upd3 THEN [pl4 EXCEPT ![p.name].ssd = p.ssd_cache] ELSE pl4
    IN  exit_json(pl6, upd1 \/ upd2 \/ upd3, c6)

\* delete_pool
delete_pool(pl, p, calls) ==
    exit_json([pl EXCEPT ![p.name] = NoPool], TRUE,
              Append(calls, Call("pool.delete", p.name, TRUE)))

\* main() of infini_pool on the array's pools `pl` with parameters p, when
\* get_system ends as `auth` says.
infini_pool_main(pl, p, auth) ==
    LET system == get_system(pl, auth)
        pool == get_pool(pl, p)
        calls == system.calls \o <<Call("pools.get", p.name, pool.exists)>>
    IN  IF Given(p.size) /\ ~ValidCapacity(p.size)
        THEN fail_json(pl, BadSizeMsg("pool"), <<>>)
        ELSE IF Given(p.vsize) /\ ~ValidCapacity(p.vsize)
        THEN fail_json(pl, BadVsizeMsg, <<>>)
        ELSE IF system.out = "failed"
        THEN system
        ELSE
        CASE p.state = "present" /\ ~pool.exists -> create_pool(pl, p, calls)
          [] p.state = "present" /\ pool.exists  -> update_pool(pl, p, calls)
          [] p.state = "absent" /\ pool.exists   -> delete_pool(pl, p, calls)
          [] p.state = "absent" /\ ~pool.exists  -> exit_json(pl, FALSE, calls)

---------------------------------------------------------------------------
(* infini_pool on an array that answers one of its calls with an error.    *)

\* A mutant of api_wrapper: the exception is dropped and changed=True is
\* reported.
api_wrapper_swallow(arr, op, arg, calls) ==
    exit_json(arr, TRUE, Append(calls, Call(op, arg, FALSE)))

\* api_wrapper: the call op(arg), issued after `calls`, raised
\* APICommandException; the wrapper ends the module with
\* fail_json(msg=e.message).  The message is the array's, for that call.
api_wrapper(arr, op, arg, calls) ==
    fail_json(arr, <<"APICommandException", op>>, Append(calls, Call(op, arg, FALSE)))

\* The calls of infini_pool the array may answer with an error, and the
\* failures of get_system.
PoolFaults ==
    SystemFaults \cup
    {"pools.get", "pools.create", "pool.update_physical_capacity",
     "pool.update_virtual_capacity", "pool.update_ssd_enabled", "pool.delete"}

\* create_pool when the array fails call `fault`: a failed pools.create
\* creates nothing; a failed update_ssd_enabled leaves the pool created.
create_pool_failing(pl, p, calls, fault) ==
    LET r == create_pool(pl, p, calls)
        create == r.calls[Len(calls) + 1]
        pl1 == pools_create(pl, p.name, create.arg.physical_capacity,
                            create.arg.virtual_capacity)
    IN  IF fault = "pools.create"
        THEN api_wrapper(pl, "pools.create", create.arg, calls)
        ELSE IF fault = "pool.update_ssd_enabled" /\ ~p.ssd_cache
        THEN api_wrapper(pl1, "pool.update_ssd_enabled", p.ssd_cache,
                         Append(calls, create))
        ELSE r

\* update_pool when the array fails call `fault`: the updates issued before
\* the failing one have been applied.
update_pool_failing(pl, p, calls, fault) ==
    LET physical_capacity == rounded_capacity(p.size)
        virtual_capacity == rounded_capacity(p.vsize)
        pool == pl[p.name]
        upd1 == Given(p.size) /\ pool.phys # physical_capacity
        upd2 == Given(p.vsize) /\ pool.virt # virtual_capacity
        upd3 == pool.ssd # p.ssd_cache
        c1 == IF Given(p.size)
              THEN Append(calls, Call("pool.get_physical_capacity", "", TRUE))
              ELSE calls
        c2 == IF upd1
              THEN Append(c1, Call("pool.update_physical_capacity",
                                   physical_capacity, TRUE))
              ELSE c1
        pl2 == IF upd1 THEN [pl EXCEPT ![p.name].phys = physical_capacity] ELSE pl
        c3 == IF Given(p.vsize)
              THEN Append(c2, Call("pool.get_virtual_capacity", "", TRUE))
              ELSE c2
        c4 == IF upd2
              THEN Append(c3, Call("pool.update_virtual_capacity",
                                   virtual_capacity, TRUE))
              ELSE c3
        pl4 == IF upd2 THEN [pl2 EXCEPT ![p.name].virt = virtual_capacity] ELSE pl2
        c5 == Append(c4, Call("pool.get_ssd_enabled", "", TRUE))
    IN  IF upd1 /\ fault = "pool.update_physical_capacity"
        THEN api_wrapper(pl, fault, physical_capacity, c1)
        ELSE IF upd2 /\ fault = "pool.update_virtual_capacity"
        THEN api_wrapper(pl2, fault, virtual_capacity, c3)
        ELSE IF upd3 /\ fault = "pool.update_ssd_enabled"
        THEN api_wrapper(pl4, fault, p.ssd_cache, c5)
        ELSE update_pool(pl, p, calls)

\* main() of infini_pool when the array fails call `fault`.  get_pool turns
\* every exception of pools.get into None (`except: return None`); the array
\* refuses to create a pool whose name is taken.
infini_pool_main_failing(pl, p, fault) ==
    LET pool == get_pool(pl, p)
        found == pool.exists /\ fault # "pools.get"
        calls == get_system(pl, "none").calls \o <<Call("pools.get", p.name, found)>>
    IN  IF \/ Given(p.size) /\ ~ValidCapacity(p.size)
           \/ Given(p.vsize) /\ ~ValidCapacity(p.vsize)
           \/ fault \in SystemFaults
        THEN infini_pool_main(pl, p, IF fault \in SystemFaults THEN fault ELSE "none")
        ELSE
        CASE p.state = "present" /\ ~found /\ pool.exists
               -> create_pool_failing(pl, p, calls, "pools.create")
          [] p.state = "present" /\ ~found /\ ~pool.exists
               -> create_pool_failing(pl, p, calls, fault)
          [] p.state = "present" /\ found
               -> update_pool_failing(pl, p, calls, fault)
          [] p.state = "absent" /\ found /\ fault = "pool.delete"
               -> api_wrapper(pl, "pool.delete", p.name, calls)
          [] p.state = "absent" /\ found /\ fault # "pool.delete"
               -> delete_pool(pl, p, calls)
          [] p.state = "absent" /\ ~found
               -> exit_json(pl, FALSE, calls)

---------------------------------------------------------------------------
(* The array: volumes and filesystems.                                     *)

NoVolume == [exists |-> FALSE, pool |-> "", size |-> 0]

\* The size the array gives a volume or filesystem created without one.
ArrayDefaultSize == 1024 * 1024 * KiB

\* system.volumes.create(name, pool) and system.filesystems.create(name, pool).
datasets_create(ds, name, pool) ==
    [ds EXCEPT ![name] = [exists |-> TRUE, pool |-> pool, size |-> ArrayDefaultSize]]

---------------------------------------------------------------------------
(* infini_vol                                                              *)

VolParams ==
    [name : VolNames, state : States, pool : PoolNames, size : SizeArgs]

\* get_pool of infini_vol and infini_fs: the pool named by `pool`, or None.
dataset_get_pool(pl, p) == pl[p.pool]

\* get_volume: the volume named `name`, or None.
get_volume(vl, p) == vl[p.name]

\* A mutant of create_volume: the pool is looked up after volumes.create.
create_volume_lookup_late(pl, vl, p, calls) ==
    LET pool == dataset_get_pool(pl, p)
        c1 == calls \o <<Call("volumes.create", p.pool, pool.exists),
                         Call("pools.get", p.pool, pool.exists)>>
        vl1 == datasets_create(vl, p.name, p.pool)
        size == roundup(Capacity(p.size), VolAlign)
    IN  IF Given(p.size)
        THEN exit_json([vl1 EXCEPT ![p.name].size = size], TRUE,
                       Append(c1, Call("volume.update_size", size, TRUE)))
        ELSE exit_json(vl1, TRUE, c1)

\* create_volume
create_volume(pl, vl, p, calls) ==
    LET pool == dataset_get_pool(pl, p)
        c1 == calls \o <<Call("pools.get", p.pool, pool.exists),
                         Call("volumes.create", p.pool, pool.exists)>>
        vl1 == datasets_create(vl, p.name, p.pool)
        size == roundup(Capacity(p.size), VolAlign)
    IN  IF Given(p.size)
        THEN exit_json([vl1 EXCEPT ![p.name].size = size], TRUE,
                       Append(c1, Call("volume.update_size", size, TRUE)))
        ELSE exit_json(vl1, TRUE, c1)

\* A mutant of update_volume: the size is compared and sent as parsed.
update_volume_unrounded(vl, p, calls) ==
    LET volume == vl[p.name]
        size == Capacity(p.size)
        c1 == IF Given(p.size)
              THEN Append(calls, Call("volume.get_size", "", TRUE))
              ELSE calls
        upd == Given(p.size) /\ volume.size # size
    IN  IF upd
        THEN exit_json([vl EXCEPT ![p.name].size = size], TRUE,
                       Append(c1, Call("volume.update_size", size, TRUE)))
        ELSE exit_json(vl, FALSE, c1)

\* A mutant of update_volume: the volume is moved to the pool named.
update_volume_moves(vl, p, calls) ==
    LET volume == vl[p.name]
        size == roundup(Capacity(p.size), VolAlign)
        c1 == IF Given(p.size)
              THEN Append(calls, Call("volume.get_size", "", TRUE))
              ELSE calls
        upd == Given(p.size) /\ volume.size # size
        vl1 == [vl EXCEPT ![p.name].pool = p.pool]
    IN  IF upd
        THEN exit_json([vl1 EXCEPT ![p.name].size = size], TRUE,
                       Append(c1, Call("volume.update_size", size, TRUE)))
        ELSE exit_json(vl1, volume.pool # p.pool, c1)

\* update_volume
update_volume(vl, p, calls) ==
    LET volume == vl[p.name]
        size == roundup(Capacity(p.size), VolAlign)
        c1 == IF Given(p.size)
              THEN Append(calls, Call("volume.get_size", "", TRUE))
              ELSE calls
        upd == Given(p.size) /\ volume.size # size
    IN  IF upd
        THEN exit_json([vl EXCEPT ![p.name].size = size], TRUE,
                       Append(c1, Call("volume.update_size", size, TRUE)))
        ELSE exit_json(vl, FALSE, c1)

\* delete_volume
delete_volume(vl, p, calls) ==
    exit_json([vl EXCEPT ![p.name] = NoVolume], TRUE,
              Append(calls, Call("volume.delete", p.name, TRUE)))

\* main() of infini_vol on the array's pools pl and volumes vl.
infini_vol_main(pl, vl, p, auth) ==
    LET system == get_system(vl, auth)
        pool == dataset_get_pool(pl, p)
        volume == get_volume(vl, p)
        calls == system.calls \o <<Call("pools.get", p.pool, pool.exists),
                                   Call("volumes.get", p.name, volume.exists)>>
    IN  IF Given(p.size) /\ ~ValidCapacity(p.size)
        THEN fail_json(vl, BadSizeMsg("vol"), <<>>)
        ELSE IF system.out = "failed"
        THEN system
        ELSE IF ~pool.exists
        THEN fail_json(vl, <<"Pool {} not found", p.pool>>, calls)
        ELSE CASE p.state = "present" /\ ~volume.exists -> create_volume(pl, vl, p, calls)
               [] p.state = "present" /\ volume.exists  -> update_volume(vl, p, calls)
               [] p.state = "absent" /\ volume.exists   -> delete_volume(vl, p, calls)
               [] p.state = "absent" /\ ~volume.exists  -> exit_json(vl, FALSE, calls)

---------------------------------------------------------------------------
(* infini_fs                                                               *)

FsParams ==
    [name : {"f1"}, state : States, pool : PoolNames, size : SizeArgs]

\* get_filesystem of infini_fs: the filesystem named `name`, or None.
get_filesystem(fl, p) == fl[p.name]

\* create_filesystem
create_filesystem(pl, fl, p, calls) ==
    LET pool == dataset_get_pool(pl, p)
        c1 == calls \o <<Call("pools.get", p.pool, pool.exists),
                         Call("filesystems.create", p.pool, pool.exists)>>
        fl1 == datasets_create(fl, p.name, p.pool)
        size == roundup(Capacity(p.size), VolAlign)
    IN  IF Given(p.size)
        THEN exit_json([fl1 EXCEPT ![p.name].size = size], TRUE,
                       Append(c1, Call("filesystem.update_size", size, TRUE)))
        ELSE exit_json(fl1, TRUE, c1)

\* update_filesystem
update_filesystem(fl, p, calls) ==
    LET filesystem == fl[p.name]
        size == roundup(Capacity(p.size), VolAlign)
        c1 == IF Given(p.size)
              THEN Append(calls, Call("filesystem.get_size", "", TRUE))
              ELSE calls
        upd == Given(p.size) /\ filesystem.size # size
    IN  IF upd
        THEN exit_json([fl EXCEPT ![p.name].size = size], TRUE,
                       Append(c1, Call("filesystem.update_size", size, TRUE)))
        ELSE exit_json(fl, FALSE, c1)

\* delete_filesystem
delete_filesystem(fl, p, calls) ==
    exit_json([fl EXCEPT ![p.name] = NoVolume], TRUE,
              Append(calls, Call("filesystem.delete", p.name, TRUE)))

\* main() of infini_fs on the array's pools pl and filesystems fl.
infini_fs_main(pl, fl, p, auth) ==
    LET system == get_system(fl, auth)
        pool == dataset_get_pool(pl, p)
        filesystem == get_filesystem(fl, p)
        calls == system.calls \o <<Call("pools.get", p.pool, pool.exists),
                                   Call("filesystems.get", p.name, filesystem.exists)>>
    IN  IF Given(p.size) /\ ~ValidCapacity(p.size)
        THEN fail_json(fl, BadSizeMsg("fs"), <<>>)
        ELSE IF system.out = "failed"
        THEN system
        ELSE IF ~pool.exists
        THEN fail_json(fl, <<"Pool {} not found", p.pool>>, calls)
        ELSE CASE p.state = "present" /\ ~filesystem.exists -> create_filesystem(pl, fl, p, calls)
               [] p.state = "present" /\ filesystem.exists  -> update_filesystem(fl, p, calls)
               [] p.state = "absent" /\ filesystem.exists   -> delete_filesystem(fl, p, calls)
               [] p.state = "absent" /\ ~filesystem.exists  -> exit_json(fl, FALSE, calls)

---------------------------------------------------------------------------
(* infini_vol and infini_fs on an array that answers a lookup with an error. *)

\* The lookups of infini_vol and of infini_fs the array may fail, and the
\* failures of get_system.
VolFaults == SystemFaults \cup {"pools.get", "volumes.get"}
FsFaults == SystemFaults \cup {"pools.get", "filesystems.get"}

\* main() of infini_vol when the array fails call `fault`.  get_pool and
\* get_volume turn every exception of the lookup into None; the array
\* refuses to create a volume whose name is taken.
infini_vol_main_failing(pl, vl, p, fault) ==
    LET pool_found == dataset_get_pool(pl, p).exists /\ fault # "pools.get"
        volume_found == get_volume(vl, p).exists /\ fault # "volumes.get"
        calls == get_system(vl, "none").calls
                 \o <<Call("pools.get", p.pool, pool_found),
                      Call("volumes.get", p.name, volume_found)>>
    IN  IF (Given(p.size) /\ ~ValidCapacity(p.size)) \/ fault \in SystemFaults
        THEN infini_vol_main(pl, vl, p, IF fault \in SystemFaults THEN fault ELSE "none")
        ELSE IF ~pool_found
        THEN fail_json(vl, <<"Pool {} not found", p.pool>>, calls)
        ELSE CASE p.state = "present" /\ ~volume_found /\ get_volume(vl, p).exists
                    -> api_wrapper(vl, "volumes.create", p.pool,
                                   Append(calls, Call("pools.get", p.pool, TRUE)))
               [] p.state = "present" /\ ~volume_found /\ ~get_volume(vl, p).exists
                    -> create_volume(pl, vl, p, calls)
               [] p.state = "present" /\ volume_found -> update_volume(vl, p, calls)
               [] p.state = "absent" /\ volume_found  -> delete_volume(vl, p, calls)
               [] p.state = "absent" /\ ~volume_found -> exit_json(vl, FALSE, calls)

\* main() of infini_fs when the array fails call `fault`.
infini_fs_main_failing(pl, fl, p, fault) ==
    LET pool_found == dataset_get_pool(pl, p).exists /\ fault # "pools.get"
        filesystem_found == get_filesystem(fl, p).exists /\ fault # "filesystems.get"
        calls == get_system(fl, "none").calls
                 \o <<Call("pools.get", p.pool, pool_found),
                      Call("filesystems.get", p.name, filesystem_found)>>
    IN  IF (Given(p.size) /\ ~ValidCapacity(p.size)) \/ fault \in SystemFaults
        THEN infini_fs_main(pl, fl, p, IF fault \in SystemFaults THEN fault ELSE "none")
        ELSE IF ~pool_found
        THEN fail_json(fl, <<"Pool {} not found", p.pool>>, calls)
        ELSE CASE p.state = "present" /\ ~filesystem_found /\ get_filesystem(fl, p).exists
                    -> api_wrapper(fl, "filesystems.create", p.pool,
                                   Append(calls, Call("pools.get", p.pool, TRUE)))
               [] p.state = "present" /\ ~filesystem_found /\ ~get_filesystem(fl, p).exists
                    -> create_filesystem(pl, fl, p, calls)
               [] p.state = "present" /\ filesystem_found -> update_filesystem(fl, p, calls)
               [] p.state = "absent" /\ filesystem_found  -> delete_filesystem(fl, p, calls)
               [] p.state = "absent" /\ ~filesystem_found -> exit_json(fl, FALSE, calls)

---------------------------------------------------------------------------
(* The array: exports and their permission lists.                          *)

\* One client entry of a permission list.
Entries == [client : Clients, access : AccessModes, no_root_squash : BOOLEAN]

\* The sequences over S of length at most n.
SeqUpTo(S, n) == UNION {[1..k -> S] : k \in 0..n}

NoExport == [exists |-> FALSE, filesystem |-> "", perms |-> <<>>]

\* The permissions the array gives an export created without any:
\* "All Hosts(*), RW, no_root_squash: True".
ArrayDefaultPermissions ==
    <<[client |-> "*", access |-> "RW", no_root_squash |-> TRUE]>>

\* system.exports.create(export_path, filesystem)
exports_create(ex, path, filesystem) ==
    [ex EXCEPT ![path] = [exists |-> TRUE, filesystem |-> filesystem,
                          perms |-> ArrayDefaultPermissions]]

\* export.update_permissions(client_list): the array keeps the list as given.
update_permissions(ex, path, client_list) ==
    [ex EXCEPT ![path].perms = client_list]

---------------------------------------------------------------------------
(* infini_export                                                           *)

\* The client_list parameter: None (not supplied) or a list of entries.
NoneList == [none |-> TRUE, items |-> <<>>]
ListOf(items) == [none |-> FALSE, items |-> items]

\* The entries the supplied lists are made of: for each field, two of them
\* differ in that field alone.
ListEntries ==
    {[client |-> "*", access |-> "RW", no_root_squash |-> TRUE],
     [client |-> "*", access |-> "RO", no_root_squash |-> TRUE],
     [client |-> "10.0.0.1", access |-> "RW", no_root_squash |-> TRUE],
     [client |-> "10.0.0.1", access |-> "RW", no_root_squash |-> FALSE]}

ClientLists == {NoneList} \cup {ListOf(l) : l \in SeqUpTo(ListEntries, MaxPerms)}

\* A mutant of Truthy: `if client_list` is taken for every list.
Truthy_always(client_list) == TRUE

\* Truthiness of the parameter: `if client_list`, false for None and for [].
Truthy(client_list) == ~client_list.none /\ Len(client_list.items) > 0

\* The lists supplied with a filesystem other than f1 or with state=absent
\* (which never reads client_list): none, the empty list, one entry.
SmallLists ==
    {NoneList, ListOf(<<>>),
     ListOf(<<[client |-> "10.0.0.1", access |-> "RO", no_root_squash |-> FALSE]>>)}

ExportParams ==
    [name : ExportPaths, state : {"present"}, filesystem : {"f1"},
     client_list : ClientLists]
    \cup [name : ExportPaths, state : States, filesystem : FsNames,
          client_list : SmallLists]

\* A mutant of transform: the entry is reduced to its client.
transform_client_only(d) == {<<"client", d.client>>}

\* transform(d) = frozenset(d.items()): the entry as its set of (key, value).
transform(d) ==
    {<<"client", d.client>>, <<"access", d.access>>,
     <<"no_root_squash", d.no_root_squash>>}

\* set(map(transform, l))
TransformedSet(l) == {transform(l[i]) : i \in 1..Len(l)}

\* get_filesystem of infini_export: the filesystem named `filesystem`, or None.
export_get_filesystem(fl, p) == fl[p.filesystem]

\* get_export of infini_export: the first export whose path is `name`, or None.
get_export(ex, p) == ex[p.name]

\* A mutant of update_export: an export created without a client list is
\* sent the default permissions.
update_export_default_permissions(ex, p, calls) ==
    LET export == ex[p.name]
        client_list == IF Truthy(p.client_list) THEN p.client_list
                       ELSE ListOf(ArrayDefaultPermissions)
    IN  IF ~export.exists
        THEN LET ex1 == exports_create(ex, p.name, p.filesystem)
                 c1 == Append(calls, Call("exports.create", p.filesystem, TRUE))
             IN  exit_json(update_permissions(ex1, p.name, client_list.items), TRUE,
                          Append(c1, Call("export.update_permissions",
                                          client_list.items, TRUE)))
        ELSE exit_json(ex, FALSE, calls)

\* update_export
update_export(ex, p, calls) ==
    LET export == ex[p.name]
        client_list == p.client_list
    IN  IF ~export.exists
        THEN LET ex1 == exports_create(ex, p.name, p.filesystem)
                 c1 == Append(calls, Call("exports.create", p.filesystem, TRUE))
             IN  IF Truthy(client_list)
                 THEN exit_json(update_permissions(ex1, p.name, client_list.items), TRUE,
                          Append(c1, Call("export.update_permissions",
                                          client_list.items, TRUE)))
                 ELSE exit_json(ex1, TRUE, c1)
        ELSE IF Truthy(client_list)
             THEN LET c1 == Append(calls, Call("export.get_permissions", "", TRUE))
                  IN  IF TransformedSet(export.perms) # TransformedSet(client_list.items)
                      THEN exit_json(update_permissions(ex, p.name, client_list.items), TRUE,
                               Append(c1, Call("export.update_permissions",
                                               client_list.items, TRUE)))
                      ELSE exit_json(ex, FALSE, c1)
             ELSE exit_json(ex, FALSE, calls)

\* delete_export
delete_export(ex, p, calls) ==
    exit_json([ex EXCEPT ![p.name] = NoExport], TRUE,
              Append(calls, Call("export.delete", p.name, TRUE)))

\* A mutant of infini_export_main: the filesystem is only required when
\* the desired state is present.
infini_export_main_late_check(fl, ex, p, auth) ==
    LET filesystem == export_get_filesystem(fl, p)
        export == get_export(ex, p)
        calls == get_system(ex, auth).calls
                 \o <<Call("filesystems.get", p.filesystem, filesystem.exists),
                      Call("exports.to_list", p.name, export.exists)>>
    IN  CASE get_system(ex, auth).out = "failed" -> get_system(ex, auth)
          [] p.state = "present" /\ ~filesystem.exists
               -> fail_json(ex, <<"Filesystem {} not found", p.filesystem>>, calls)
          [] p.state = "present" /\ filesystem.exists -> update_export(ex, p, calls)
          [] p.state = "absent" /\ export.exists  -> delete_export(ex, p, calls)
          [] p.state = "absent" /\ ~export.exists -> exit_json(ex, FALSE, calls)

\* main() of infini_export on the array's filesystems fl and exports ex.
infini_export_main(fl, ex, p, auth) ==
    LET system == get_system(ex, auth)
        filesystem == export_get_filesystem(fl, p)
        export == get_export(ex, p)
        calls == system.calls
                 \o <<Call("filesystems.get", p.filesystem, filesystem.exists),
                      Call("exports.to_list", p.name, export.exists)>>
    IN  IF system.out = "failed"
        THEN system
        ELSE IF ~filesystem.exists
        THEN fail_json(ex, <<"Filesystem {} not found", p.filesystem>>, calls)
        ELSE CASE p.state = "present"                  -> update_export(ex, p, calls)
               [] p.state = "absent" /\ export.exists  -> delete_export(ex, p, calls)
               [] p.state = "absent" /\ ~export.exists -> exit_json(ex, FALSE, calls)

---------------------------------------------------------------------------
(* infini_export_client                                                    *)

ClientParams ==
    [client : Clients, state : States, access_mode : AccessModes,
     no_root_squash : BOOLEAN, export : ExportPaths]

\* A mutant of SetFields: the loop misses `if item.client == client`.
SetFields_every_item(client_list, p) ==
    [i \in 1..Len(client_list) |->
        [client_list[i] EXCEPT !.access = p.access_mode,
                               !.no_root_squash = p.no_root_squash]]

\* The first loop of update_client: every entry of client gets the desired
\* access and no_root_squash.
SetFields(client_list, p) ==
    [i \in 1..Len(client_list) |->
        IF client_list[i].client = p.client
        THEN [client_list[i] EXCEPT !.access = p.access_mode,
                                    !.no_root_squash = p.no_root_squash]
        ELSE client_list[i]]

\* A mutant of update_client: a client that is not in the list is not appended.
update_client_no_append(ex, p, calls) ==
    LET client_list == ex[p.export].perms
        c1 == Append(calls, Call("export.get_permissions", "", TRUE))
        client_not_in_list ==
            \A i \in 1..Len(client_list) : client_list[i].client # p.client
        l1 == SetFields(client_list, p)
        changed == l1 # client_list \/ client_not_in_list
    IN  IF changed
        THEN exit_json(update_permissions(ex, p.export, l1), TRUE,
                       Append(c1, Call("export.update_permissions", l1, TRUE)))
        ELSE exit_json(ex, FALSE, c1)

\* A mutant of update_client: the list is sent also when nothing changed.
update_client_always_sends(ex, p, calls) ==
    LET client_list == ex[p.export].perms
        c1 == Append(calls, Call("export.get_permissions", "", TRUE))
        client_not_in_list ==
            \A i \in 1..Len(client_list) : client_list[i].client # p.client
        l1 == SetFields(client_list, p)
        l2 == IF client_not_in_list
              THEN Append(l1, [client |-> p.client, access |-> p.access_mode,
                               no_root_squash |-> p.no_root_squash])
              ELSE l1
    IN  exit_json(update_permissions(ex, p.export, l2), TRUE,
                  Append(c1, Call("export.update_permissions", l2, TRUE)))

\* update_client
update_client(ex, p, calls) ==
    LET client_list == ex[p.export].perms
        c1 == Append(calls, Call("export.get_permissions", "", TRUE))
        client_not_in_list ==
            \A i \in 1..Len(client_list) : client_list[i].client # p.client
        l1 == SetFields(client_list, p)
        l2 == IF client_not_in_list
              THEN Append(l1, [client |-> p.client, access |-> p.access_mode,
                               no_root_squash |-> p.no_root_squash])
              ELSE l1
        changed == l1 # client_list \/ client_not_in_list
    IN  IF changed
        THEN exit_json(update_permissions(ex, p.export, l2), TRUE,
                       Append(c1, Call("export.update_permissions", l2, TRUE)))
        ELSE exit_json(ex, FALSE, c1)

\* The loop of delete_client, `for index, item in enumerate(client_list)`
\* with `del client_list[index]` in its body, from position index: the
\* iterator moves on to index + 1 of the list as the deletion left it.
RECURSIVE DelLoop(_, _, _)
DelLoop(client_list, client, index) ==
    IF index > Len(client_list)
    THEN client_list
    ELSE IF client_list[index].client = client
         THEN DelLoop(SubSeq(client_list, 1, index - 1)
                        \o SubSeq(client_list, index + 1, Len(client_list)),
                      client, index + 1)
         ELSE DelLoop(client_list, client, index + 1)

\* delete_client
delete_client(ex, p, calls) ==
    LET client_list == ex[p.export].perms
        c1 == Append(calls, Call("export.get_permissions", "", TRUE))
        l1 == DelLoop(client_list, p.client, 1)
        changed == \E i \in 1..Len(client_list) : client_list[i].client = p.client
    IN  IF changed
        THEN exit_json(update_permissions(ex, p.export, l1), TRUE,
                       Append(c1, Call("export.update_permissions", l1, TRUE)))
        ELSE exit_json(ex, FALSE, c1)

\* main() of infini_export_client on the array's exports ex; get_export of
\* this module fails the module when the export is not found.
infini_export_client_main(ex, p, auth) ==
    LET system == get_system(ex, auth)
        export == ex[p.export]
        calls == system.calls \o <<Call("exports.get", p.export, export.exists)>>
    IN  IF system.out = "failed"
        THEN system
        ELSE IF ~export.exists
        THEN fail_json(ex, <<"Export with export path {} not found", p.export>>, calls)
        ELSE IF p.state = "present"
             THEN update_client(ex, p, calls)
             ELSE delete_client(ex, p, calls)

---------------------------------------------------------------------------
(* The array: hosts.                                                       *)

NoHost == [exists |-> FALSE, ports |-> <<>>, luns |-> {}]

\* system.hosts.create(name)
hosts_create(hs, name) ==
    [hs EXCEPT ![name] = [exists |-> TRUE, ports |-> <<>>, luns |-> {}]]

---------------------------------------------------------------------------
(* infini_host                                                             *)

\* wwns: None or a list of port names (None and [] are both falsy).
WwnLists ==
    {l \in SeqUpTo(Wwns, MaxWwns) : \A i, j \in 1..Len(l) : i # j => l[i] # l[j]}

\* volume: None ("") or a volume name.
HostParams ==
    [name : HostNames, state : States, wwns : WwnLists,
     volume : VolNames \cup {""}]

\* get_host: the first host named `name`, or None.
get_host(hs, p) == hs[p.name]

\* A mutant of AddPortCalls: the ports are added last to first.
AddPortCalls_reversed(wwns) ==
    [i \in 1..Len(wwns) |-> Call("host.add_fc_port", wwns[Len(wwns) + 1 - i], TRUE)]

\* The calls of `for p in module.params['wwns']: host.add_fc_port(p)`.
AddPortCalls(wwns) ==
    [i \in 1..Len(wwns) |-> Call("host.add_fc_port", wwns[i], TRUE)]

\* create_host
create_host(vl, hs, p, calls) ==
    LET hs1 == hosts_create(hs, p.name)
        c1 == Append(calls, Call("hosts.create", p.name, TRUE))
        hs2 == [hs1 EXCEPT ![p.name].ports = p.wwns]
        c2 == c1 \o AddPortCalls(p.wwns)
    IN  IF p.volume # ""
        THEN exit_json([hs2 EXCEPT ![p.name].luns = {p.volume}], TRUE,
                       c2 \o <<Call("volumes.get", p.volume, vl[p.volume].exists),
                               Call("host.map_volume", p.volume, TRUE)>>)
        ELSE exit_json(hs2, TRUE, c2)

\* A mutant of update_host: the wwns are added to the host found.
update_host_adds_ports(hs, p, calls) ==
    exit_json([hs EXCEPT ![p.name].ports = p.wwns], Len(p.wwns) > 0,
              calls \o AddPortCalls(p.wwns))

\* A mutant of update_host: changed starts True, as in create_host.
update_host_changed(hs, p, calls) == exit_json(hs, TRUE, calls)

\* update_host
update_host(hs, p, calls) == exit_json(hs, FALSE, calls)

\* delete_host
delete_host(hs, p, calls) ==
    exit_json([hs EXCEPT ![p.name] = NoHost], TRUE,
              Append(calls, Call("host.delete", p.name, TRUE)))

\* A mutant of infini_host_main: a host that does not exist is created
\* before the desired state is looked at.
infini_host_main_create_first(vl, hs, p, auth) ==
    LET host == hs[p.name]
        c1 == get_system(hs, auth).calls
              \o <<Call("hosts.to_list", p.name, host.exists)>>
        calls == IF p.volume # ""
                 THEN Append(c1, Call("volumes.get", p.volume, vl[p.volume].exists))
                 ELSE c1
    IN  IF get_system(hs, auth).out = "failed"
        THEN get_system(hs, auth)
        ELSE IF p.volume # "" /\ ~vl[p.volume].exists
        THEN fail_json(hs, <<"Volume {} not found", p.volume>>, calls)
        ELSE CASE ~host.exists                        -> create_host(vl, hs, p, calls)
               [] host.exists /\ p.state = "present"  -> update_host(hs, p, calls)
               [] host.exists /\ p.state = "absent"   -> delete_host(hs, p, calls)

\* main() of infini_host on the array's volumes vl and hosts hs.
infini_host_main(vl, hs, p, auth) ==
    LET system == get_system(hs, auth)
        host == get_host(hs, p)
        c1 == system.calls \o <<Call("hosts.to_list", p.name, host.exists)>>
        calls == IF p.volume # ""
                 THEN Append(c1, Call("volumes.get", p.volume, vl[p.volume].exists))
                 ELSE c1
    IN  IF system.out = "failed"
        THEN system
        ELSE IF p.volume # "" /\ ~vl[p.volume].exists
        THEN fail_json(hs, <<"Volume {} not found", p.volume>>, calls)
        ELSE CASE host.exists /\ p.state = "present"  -> update_host(hs, p, calls)
               [] host.exists /\ p.state = "absent"   -> delete_host(hs, p, calls)
               [] ~host.exists /\ p.state = "absent"  -> exit_json(hs, FALSE, calls)
               [] OTHER                               -> create_host(vl, hs, p, calls)

---------------------------------------------------------------------------
(* infini_host on an array that answers a lookup with an error.            *)

\* The calls of infini_host the array may fail, and the failures of
\* get_system.
HostFaults ==
    SystemFaults \cup
    {"hosts.to_list", "volumes.get", "host.add_fc_port", "host.map_volume"}

\* The position of port in wwns, 0 when it is not one of them.
PortIndex(wwns, port) ==
    IF \E i \in 1..Len(wwns) : wwns[i] = port
    THEN CHOOSE i \in 1..Len(wwns) : wwns[i] = port
    ELSE 0

\* A mutant of create_host_failing: the host is removed when a call fails.
create_host_failing_rollback(vl, hs, p, calls, fault, port) ==
    LET c1 == Append(calls, Call("hosts.create", p.name, TRUE))
        k == PortIndex(p.wwns, port)
    IN  IF fault = "host.add_fc_port" /\ k > 0
        THEN api_wrapper(hs, "host.add_fc_port", port,
                         c1 \o AddPortCalls(SubSeq(p.wwns, 1, k - 1)))
        ELSE IF fault = "host.map_volume" /\ p.volume # ""
        THEN api_wrapper(hs, "host.map_volume", p.volume,
                         c1 \o AddPortCalls(p.wwns)
                            \o <<Call("volumes.get", p.volume, vl[p.volume].exists)>>)
        ELSE create_host(vl, hs, p, calls)

\* create_host when the array fails add_fc_port for the port `port`, or
\* map_volume: the exception leaves the loop and the function through
\* api_wrapper, after hosts.create and the ports before `port` were added.
create_host_failing(vl, hs, p, calls, fault, port) ==
    LET hs1 == hosts_create(hs, p.name)
        c1 == Append(calls, Call("hosts.create", p.name, TRUE))
        k == PortIndex(p.wwns, port)
    IN  IF fault = "host.add_fc_port" /\ k > 0
        THEN api_wrapper([hs1 EXCEPT ![p.name].ports = SubSeq(p.wwns, 1, k - 1)],
                         "host.add_fc_port", port,
                         c1 \o AddPortCalls(SubSeq(p.wwns, 1, k - 1)))
        ELSE IF fault = "host.map_volume" /\ p.volume # ""
        THEN api_wrapper([hs1 EXCEPT ![p.name].ports = p.wwns],
                         "host.map_volume", p.volume,
                         c1 \o AddPortCalls(p.wwns)
                            \o <<Call("volumes.get", p.volume, vl[p.volume].exists)>>)
        ELSE create_host(vl, hs, p, calls)

\* main() of infini_host when the array fails call `fault`.  get_host runs
\* under api_wrapper and catches nothing itself; main turns every exception
\* of volumes.get into the not-found message.
infini_host_main_failing(vl, hs, p, fault, port) ==
    LET system == get_system(hs, "none")
        host == get_host(hs, p)
        c1 == system.calls \o <<Call("hosts.to_list", p.name, host.exists)>>
        calls == IF p.volume # ""
                 THEN Append(c1, Call("volumes.get", p.volume, vl[p.volume].exists))
                 ELSE c1
    IN  CASE fault = "hosts.to_list"
               -> api_wrapper(hs, "hosts.to_list", p.name, system.calls)
          [] fault = "volumes.get" /\ p.volume # ""
               -> fail_json(hs, <<"Volume {} not found", p.volume>>,
                      system.calls \o <<Call("hosts.to_list", p.name, host.exists),
                                        Call("volumes.get", p.volume, FALSE)>>)
          [] /\ fault \in {"host.add_fc_port", "host.map_volume"}
             /\ ~host.exists /\ p.state = "present"
             /\ (p.volume # "" => vl[p.volume].exists)
               -> create_host_failing(vl, hs, p, calls, fault, port)
          [] OTHER -> infini_host_main(vl, hs, p,
                                       IF fault \in SystemFaults THEN fault ELSE "none")

---------------------------------------------------------------------------
(* The state machine.                                                      *)

\* The invocation record kept in `last`; tick alternates from one invocation
\* to the next, so that no invocation is a stuttering step.
\* fault names what fails during the invocation: get_system (one of
\* SystemFaults), or the remote call the array answers with an error;
\* "none": get_system returns the system and the array answers every call.
Invocation(mod, p, r, fault) ==
    [mod |-> mod, p |-> p, out |-> r.out, msg |-> r.msg, calls |-> r.calls,
     tick |-> 1 - last.tick, fault |-> fault]

NoInvocation ==
    [mod |-> "none", p |-> <<>>, out |-> "none", msg |-> <<>>, calls |-> <<>>,
     tick |-> 0, fault |-> "none"]

\* The plays: each runs one module, any number of times.
Plays == {"pool", "volume", "filesystem", "export", "export_client", "host"}

\* A pool as create_pool leaves it when given no size.
SeedPool ==
    pools_create([n \in PoolNames |-> NoPool], "p1",
                 Capacity([n |-> 1, u |-> "TB"]), Capacity([n |-> 1, u |-> "TB"]))["p1"]

\* A volume or filesystem as created in pool p1 with no size.
SeedDataset(name) ==
    datasets_create([n \in {name} |-> NoVolume], name, "p1")[name]

\* An export of filesystem f1 as infini_export leaves it: with the array's
\* default permissions or with any client list it was given.
SeedExports ==
    {NoExport}
    \cup {[exists |-> TRUE, filesystem |-> "f1", perms |-> l] :
            l \in SeqUpTo(Entries, MaxPerms) \cup {ArrayDefaultPermissions}}

\* The array when a play starts: the resources the play's module manages do
\* not exist yet (infini_export_client manages entries: its export is any
\* export infini_export can have left), and each possible parent of them
\* exists or does not.
Init ==
    /\ play \in Plays
    /\ pools \in [PoolNames -> {NoPool, SeedPool}]
    /\ play = "pool" => pools = [n \in PoolNames |-> NoPool]
    /\ play \notin {"pool", "volume", "filesystem"}
         => pools = [n \in PoolNames |-> SeedPool]
    /\ volumes \in [VolNames -> {NoVolume} \cup {SeedDataset(n) : n \in VolNames}]
    /\ play # "host" => volumes = [n \in VolNames |-> NoVolume]
    /\ filesystems \in [FsNames -> {NoVolume} \cup {SeedDataset(n) : n \in FsNames}]
    /\ play = "export_client" => filesystems = [n \in FsNames |-> SeedDataset(n)]
    /\ play \notin {"export", "export_client"}
         => filesystems = [n \in FsNames |-> NoVolume]
    /\ exports \in [ExportPaths -> SeedExports]
    /\ play # "export_client" => exports = [n \in ExportPaths |-> NoExport]
    /\ hosts = [n \in HostNames |-> NoHost]
    /\ last = NoInvocation
    /\ procs = <<>>

\* One invocation of each module, whole.  In this specification the
\* credentials are found and the login succeeds (get_system returns the
\* system) and the array answers every call; the invocations in which
\* get_system fails are drawn in SpecErr, SpecRace and SpecRun.
PoolMain ==
    /\ play = "pool"
    /\ \E p \in PoolParams :
         LET r == infini_pool_main(pools, p, "none")
         IN  /\ pools' = r.arr
             /\ last' = Invocation("pool", p, r, "none")
    /\ UNCHANGED <<procs, play, volumes, filesystems, exports, hosts>>

VolMain ==
    /\ play = "volume"
    /\ \E p \in VolParams :
         LET r == infini_vol_main(pools, volumes, p, "none")
         IN  /\ volumes' = r.arr
             /\ last' = Invocation("vol", p, r, "none")
    /\ UNCHANGED <<procs, play, pools, filesystems, exports, hosts>>

FsMain ==
    /\ play = "filesystem"
    /\ \E p \in FsParams :
         LET r == infini_fs_main(pools, filesystems, p, "none")
         IN  /\ filesystems' = r.arr
             /\ last' = Invocation("fs", p, r, "none")
    /\ UNCHANGED <<procs, play, pools, volumes, exports, hosts>>

ExportMain ==
    /\ play = "export"
    /\ \E p \in ExportParams :
         LET r == infini_export_main(filesystems, exports, p, "none")
         IN  /\ exports' = r.arr
             /\ last' = Invocation("export", p, r, "none")
    /\ UNCHANGED <<procs, play, pools, volumes, filesystems, hosts>>

\* An entry is appended only while the list is shorter than MaxPerms.
ExportClientMain ==
    /\ play = "export_client"
    /\ \E p \in ClientParams :
         LET r == infini_export_client_main(exports, p, "none")
         IN  /\ Len(r.arr[p.export].perms) <= MaxPerms
             /\ exports' = r.arr
             /\ last' = Invocation("export_client", p, r, "none")
    /\ UNCHANGED <<procs, play, pools, volumes, filesystems, hosts>>

HostMain ==
    /\ play = "host"
    /\ \E p \in HostParams :
         LET r == infini_host_main(volumes, hosts, p, "none")
         IN  /\ hosts' = r.arr
             /\ last' = Invocation("host", p, r, "none")
    /\ UNCHANGED <<procs, play, pools, volumes, filesystems, exports>>

Next ==
    \/ PoolMain
    \/ VolMain
    \/ FsMain
    \/ ExportMain
    \/ ExportClientMain
    \/ HostMain

Spec == Init /\ [][Next]_vars

---------------------------------------------------------------------------
(* The modules when get_system may fail, on an array that may answer a     *)
(* call with an error, given sizes that may be malformed.                  *)

\* A size string Capacity() does not parse.
BadSize == [n |-> 1, u |-> "XB"]

ErrSizeArgs == SizeArgs \cup {BadSize}

\* The parameters of infini_pool, and those with a malformed size or vsize.
PoolErrParams ==
    PoolParams
    \cup [name : {"p1"}, state : States, size : {BadSize}, vsize : ErrSizeArgs,
          ssd_cache : {TRUE}]
    \cup [name : {"p1"}, state : States, size : SizeArgs, vsize : {BadSize},
          ssd_cache : {TRUE}]

\* The parameters of infini_vol and infini_fs, and those with a malformed size.
VolErrParams ==
    VolParams \cup [name : VolNames, state : States, pool : {"p1"}, size : {BadSize}]
FsErrParams ==
    FsParams \cup [name : {"f1"}, state : States, pool : {"p1"}, size : {BadSize}]

ErrPlays == {"pool", "volume", "filesystem", "host"}

ErrInit == Init /\ play \in ErrPlays

PoolMainFailing ==
    /\ play = "pool"
    /\ \E p \in PoolErrParams, fault \in PoolFaults :
         LET r == infini_pool_main_failing(pools, p, fault)
         IN  /\ pools' = r.arr
             /\ last' = Invocation("pool", p, r, fault)
    /\ UNCHANGED <<procs, play, volumes, filesystems, exports, hosts>>

VolMainFailing ==
    /\ play = "volume"
    /\ \E p \in VolErrParams, fault \in VolFaults :
         LET r == infini_vol_main_failing(pools, volumes, p, fault)
         IN  /\ volumes' = r.arr
             /\ last' = Invocation("vol", p, r, fault)
    /\ UNCHANGED <<procs, play, pools, filesystems, exports, hosts>>

FsMainFailing ==
    /\ play = "filesystem"
    /\ \E p \in FsErrParams, fault \in FsFaults :
         LET r == infini_fs_main_failing(pools, filesystems, p, fault)
         IN  /\ filesystems' = r.arr
             /\ last' = Invocation("fs", p, r, fault)
    /\ UNCHANGED <<procs, play, pools, volumes, exports, hosts>>

HostMainFailing ==
    /\ play = "host"
    /\ \E p \in HostParams, fault \in HostFaults, port \in Wwns :
         LET r == infini_host_main_failing(volumes, hosts, p, fault, port)
         IN  /\ hosts' = r.arr
             /\ last' = Invocation("host", p, r, fault)
    /\ UNCHANGED <<procs, play, pools, volumes, filesystems, exports>>

ErrNext ==
    \/ PoolMainFailing
    \/ VolMainFailing
    \/ FsMainFailing
    \/ HostMainFailing

SpecErr == ErrInit /\ [][ErrNext]_vars

---------------------------------------------------------------------------
(* Capacity.roundup on its own: the inputs are drawn by the initial state, *)
(* the one action applies roundup once and once more to its result.        *)

\* The capacity values roundup is applied to: small ones, and the ones the
\* modules parse (1GB, 3GiB, the 1TB default).
CapValues ==
    (0..MaxCap)
    \cup {Capacity(s) : s \in SizeArgs \ {NoSize}}
    \cup {Capacity([n |-> 1, u |-> "TB"])}

\* The alignments: small ones, and the two the modules round to.
Alignments == (1..MaxAlign) \cup {VolAlign, PoolAlign}

CapacityInit ==
    /\ play = "capacity"
    /\ pools = [n \in PoolNames |-> NoPool]
    /\ volumes = [n \in VolNames |-> NoVolume]
    /\ filesystems = [n \in FsNames |-> NoVolume]
    /\ exports = [n \in ExportPaths |-> NoExport]
    /\ hosts = [n \in HostNames |-> NoHost]
    /\ \E x \in CapValues, a \in Alignments :
         last = [x |-> x, a |-> a, done |-> FALSE, r |-> 0, rr |-> 0]
    /\ procs = <<>>

\* r = Capacity(x).roundup(a) and rr = r.roundup(a)
Roundup ==
    /\ play = "capacity" /\ ~last.done
    /\ last' = [last EXCEPT !.done = TRUE,
                            !.r = roundup(last.x, last.a),
                            !.rr = roundup(roundup(last.x, last.a), last.a)]
    /\ UNCHANGED <<procs, play, pools, volumes, filesystems, exports, hosts>>

CapacityNext == Roundup

SpecCapacity == CapacityInit /\ [][CapacityNext]_vars

---------------------------------------------------------------------------
(* Two invocations of infini_pool at the same time, for the same existing  *)
(* pool: every remote call of main and update_pool is one step, and the    *)
(* steps of the two interleave.  The array serves one call at a time.      *)

Procs == {1, 2}

\* Both invocations name pool p1 with state=present and give size and vsize.
ConcParams ==
    [name : {"p1"}, state : {"present"}, size : SizeArgs \ {NoSize},
     vsize : SizeArgs \ {NoSize}, ssd_cache : BOOLEAN]

\* The pool before the two run: as created with no size, or as created with
\* size=3GiB vsize=1GB ssd_cache=no.
ConcPools ==
    {[n \in PoolNames |-> SeedPool],
     create_pool([n \in PoolNames |-> SeedPool],
                 [name |-> "p1", state |-> "present",
                  size |-> [n |-> 3, u |-> "GiB"], vsize |-> [n |-> 1, u |-> "GB"],
                  ssd_cache |-> FALSE], <<>>).arr}

ConcInit ==
    /\ play = "pool"
    /\ pools \in ConcPools
    /\ volumes = [n \in VolNames |-> NoVolume]
    /\ filesystems = [n \in FsNames |-> NoVolume]
    /\ exports = [n \in ExportPaths |-> NoExport]
    /\ hosts = [n \in HostNames |-> NoHost]
    /\ last = NoInvocation
    /\ procs \in [Procs -> [p : ConcParams, pc : {"main"}, changed : {FALSE},
                            out : {"none"}]]

\* Invocation i moves to position pc, with `changed` as given.
Goto(i, pc, changed) ==
    procs' = [procs EXCEPT ![i].pc = pc, ![i].changed = changed]

\* A mutant of update_physical_capacity: the virtual capacity is sent.
update_physical_capacity_wrong_value(pl, p) ==
    [pl EXCEPT ![p.name].phys = rounded_capacity(p.vsize)]

\* pool.update_physical_capacity(physical_capacity), and the two other
\* update calls of update_pool.
update_physical_capacity(pl, p) ==
    [pl EXCEPT ![p.name].phys = rounded_capacity(p.size)]
update_virtual_capacity(pl, p) ==
    [pl EXCEPT ![p.name].virt = rounded_capacity(p.vsize)]
update_ssd_enabled(pl, p) ==
    [pl EXCEPT ![p.name].ssd = p.ssd_cache]

\* main: system = get_system(module), which ends the invocation through
\* fail_json when it fails.
ConcLogin(i) ==
    /\ procs[i].pc = "main"
    /\ \E auth \in SystemFaults :
         IF get_system(pools, auth).out = "failed"
         THEN procs' = [procs EXCEPT ![i].pc = "done", ![i].out = "failed"]
         ELSE Goto(i, "get_pool", FALSE)
    /\ UNCHANGED <<play, pools, volumes, filesystems, exports, hosts, last>>

\* main: pool = get_pool(module, system); the pool exists and state is
\* present, so update_pool is entered.
ConcGetPool(i) ==
    /\ procs[i].pc = "get_pool"
    /\ get_pool(pools, procs[i].p).exists
    /\ Goto(i, "read_physical", FALSE)
    /\ UNCHANGED <<play, pools, volumes, filesystems, exports, hosts, last>>

\* if size: ... if pool.get_physical_capacity() != physical_capacity
ReadPhysical(i) ==
    /\ procs[i].pc = "read_physical"
    /\ LET p == procs[i].p
       IN  IF Given(p.size) /\ pools[p.name].phys # rounded_capacity(p.size)
           THEN Goto(i, "update_physical", procs[i].changed)
           ELSE Goto(i, "read_virtual", procs[i].changed)
    /\ UNCHANGED <<play, pools, volumes, filesystems, exports, hosts, last>>

\* pool.update_physical_capacity(physical_capacity); changed = True
UpdatePhysical(i) ==
    /\ procs[i].pc = "update_physical"
    /\ pools' = update_physical_capacity(pools, procs[i].p)
    /\ Goto(i, "read_virtual", TRUE)
    /\ UNCHANGED <<play, volumes, filesystems, exports, hosts, last>>

\* if vsize: ... if pool.get_virtual_capacity() != virtual_capacity
ReadVirtual(i) ==
    /\ procs[i].pc = "read_virtual"
    /\ LET p == procs[i].p
       IN  IF Given(p.vsize) /\ pools[p.name].virt # rounded_capacity(p.vsize)
           THEN Goto(i, "update_virtual", procs[i].changed)
           ELSE Goto(i, "read_ssd", procs[i].changed)
    /\ UNCHANGED <<play, pools, volumes, filesystems, exports, hosts, last>>

\* pool.update_virtual_capacity(virtual_capacity); changed = True
UpdateVirtual(i) ==
    /\ procs[i].pc = "update_virtual"
    /\ pools' = update_virtual_capacity(pools, procs[i].p)
    /\ Goto(i, "read_ssd", TRUE)
    /\ UNCHANGED <<play, volumes, filesystems, exports, hosts, last>>

\* if pool.get_ssd_enabled() != ssd_cache
ReadSsd(i) ==
    /\ procs[i].pc = "read_ssd"
    /\ LET p == procs[i].p
       IN  IF pools[p.name].ssd # p.ssd_cache
           THEN Goto(i, "update_ssd", procs[i].changed)
           ELSE Goto(i, "exit", procs[i].changed)
    /\ UNCHANGED <<play, pools, volumes, filesystems, exports, hosts, last>>

\* pool.update_ssd_enabled(ssd_cache); changed = True
UpdateSsd(i) ==
    /\ procs[i].pc = "update_ssd"
    /\ pools' = update_ssd_enabled(pools, procs[i].p)
    /\ Goto(i, "exit", TRUE)
    /\ UNCHANGED <<play, volumes, filesystems, exports, hosts, last>>

\* module.exit_json(changed=changed)
ConcExit(i) ==
    /\ procs[i].pc = "exit"
    /\ procs' = [procs EXCEPT ![i].pc = "done",
                              ![i].out = IF procs[i].changed THEN "changed"
                                         ELSE "unchanged"]
    /\ UNCHANGED <<play, pools, volumes, filesystems, exports, hosts, last>>

ConcNext ==
    \/ \E i \in Procs : ConcLogin(i)
    \/ \E i \in Procs : ConcGetPool(i)
    \/ \E i \in Procs : ReadPhysical(i)
    \/ \E i \in Procs : UpdatePhysical(i)
    \/ \E i \in Procs : ReadVirtual(i)
    \/ \E i \in Procs : UpdateVirtual(i)
    \/ \E i \in Procs : ReadSsd(i)
    \/ \E i \in Procs : UpdateSsd(i)
    \/ \E i \in Procs : ConcExit(i)

SpecConc == ConcInit /\ [][ConcNext]_vars

---------------------------------------------------------------------------
(* Two invocations of infini_export_client at the same time, for the same  *)
(* export: every remote call of main and update_client (login,             *)
(* exports.get, get_permissions, update_permissions) is one step, and the  *)
(* steps of the two invocations interleave.                                *)

\* Both invocations name export /data01 with state=present.
ClientConcParams ==
    [client : Clients, state : {"present"}, access_mode : AccessModes,
     no_root_squash : BOOLEAN, export : ExportPaths]

\* The export before the two run: with an empty list, the array's default
\* list, or one restricted entry.
ClientConcExports ==
    {[n \in ExportPaths |->
        [exists |-> TRUE, filesystem |-> "f1", perms |-> l]] :
       l \in {<<>>, ArrayDefaultPermissions,
              <<[client |-> "10.0.0.1", access |-> "RO", no_root_squash |-> FALSE]>>}}

ClientConcInit ==
    /\ play = "export_client"
    /\ pools = [n \in PoolNames |-> SeedPool]
    /\ volumes = [n \in VolNames |-> NoVolume]
    /\ filesystems = [n \in FsNames |-> SeedDataset(n)]
    /\ exports \in ClientConcExports
    /\ hosts = [n \in HostNames |-> NoHost]
    /\ last = NoInvocation
    /\ procs \in [Procs -> [p : ClientConcParams, pc : {"main"}, changed : {FALSE},
                            out : {"none"}, client_list : {<<>>}]]

\* main: system = get_system(module), which ends the invocation through
\* fail_json when it fails.
ClientConcLogin(i) ==
    /\ procs[i].pc = "main"
    /\ \E auth \in SystemFaults :
         IF get_system(exports, auth).out = "failed"
         THEN procs' = [procs EXCEPT ![i].pc = "done", ![i].out = "failed"]
         ELSE procs' = [procs EXCEPT ![i].pc = "get_export"]
    /\ UNCHANGED <<play, pools, volumes, filesystems, exports, hosts, last>>

\* main: export = get_export(module, system); the export exists and state
\* is present, so update_client is entered.
ClientConcGetExport(i) ==
    /\ procs[i].pc = "get_export"
    /\ exports[procs[i].p.export].exists
    /\ procs' = [procs EXCEPT ![i].pc = "get_permissions"]
    /\ UNCHANGED <<play, pools, volumes, filesystems, exports, hosts, last>>

\* client_list = export.get_permissions(), and the loop and the append of
\* update_client on this copy of the list.
GetPermissions(i) ==
    /\ procs[i].pc = "get_permissions"
    /\ LET r == update_client(exports, procs[i].p, <<>>)
       IN  procs' = [procs EXCEPT
                       ![i].client_list = r.arr[procs[i].p.export].perms,
                       ![i].changed = (r.out = "changed"),
                       ![i].pc = IF r.out = "changed" THEN "update_permissions"
                                 ELSE "exit"]
    /\ UNCHANGED <<play, pools, volumes, filesystems, exports, hosts, last>>

\* if changed: export.update_permissions(client_list)
UpdatePermissions(i) ==
    /\ procs[i].pc = "update_permissions"
    /\ exports' = update_permissions(exports, procs[i].p.export,
                                     procs[i].client_list)
    /\ procs' = [procs EXCEPT ![i].pc = "exit"]
    /\ UNCHANGED <<play, pools, volumes, filesystems, hosts, last>>

\* module.exit_json(changed=changed)
ClientConcExit(i) ==
    /\ procs[i].pc = "exit"
    /\ procs' = [procs EXCEPT ![i].pc = "done",
                              ![i].out = IF procs[i].changed THEN "changed"
                                         ELSE "unchanged"]
    /\ UNCHANGED <<play, pools, volumes, filesystems, exports, hosts, last>>

ClientConcNext ==
    \/ \E i \in Procs : ClientConcLogin(i)
    \/ \E i \in Procs : ClientConcGetExport(i)
    \/ \E i \in Procs : GetPermissions(i)
    \/ \E i \in Procs : UpdatePermissions(i)
    \/ \E i \in Procs : ClientConcExit(i)

SpecClientConc == ClientConcInit /\ [][ClientConcNext]_vars

---------------------------------------------------------------------------
(* infini_export_client from the arguments the caller writes: access_mode  *)
(* and no_root_squash may be left out ("unset"), and no_root_squash is     *)
(* written yes or no.                                                      *)

ClientArgs ==
    [client : Clients, state : States, access_mode : AccessModes \cup {"unset"},
     no_root_squash : {"unset", "yes", "no"}, export : ExportPaths]

\* A mutant of argument_spec: no_root_squash defaults to yes.
argument_spec_default_yes(args) ==
    [client |-> args.client, state |-> args.state, export |-> args.export,
     access_mode |-> IF args.access_mode = "unset" THEN "RW" ELSE args.access_mode,
     no_root_squash |-> args.no_root_squash \in {"unset", "yes"}]

\* The argument_spec of main: access_mode has default 'RW', no_root_squash
\* has type bool and default 'no'.
argument_spec(args) ==
    [client |-> args.client, state |-> args.state, export |-> args.export,
     access_mode |-> IF args.access_mode = "unset" THEN "RW" ELSE args.access_mode,
     no_root_squash |-> IF args.no_root_squash = "unset" THEN FALSE
                        ELSE args.no_root_squash = "yes"]

ClientArgsInit == Init /\ play = "export_client"

\* One run of infini_export_client from written arguments; the record of
\* the invocation keeps them as `args`.
ClientMainArgs ==
    /\ play = "export_client"
    /\ \E args \in ClientArgs :
         LET p == argument_spec(args)
             r == infini_export_client_main(exports, p, "none")
         IN  /\ Len(r.arr[p.export].perms) <= MaxPerms
             /\ exports' = r.arr
             /\ last' = [mod |-> "export_client", p |-> p, out |-> r.out,
                         msg |-> r.msg, calls |-> r.calls,
                         tick |-> 1 - last.tick, fault |-> "none", args |-> args]
    /\ UNCHANGED <<procs, play, pools, volumes, filesystems, hosts>>

ClientArgsNext == ClientMainArgs

SpecClientArgs == ClientArgsInit /\ [][ClientArgsNext]_vars

---------------------------------------------------------------------------
(* infini_vol and infini_fs while another actor deletes pools: every       *)
(* remote call of main, of the create step and of the update step is one   *)
(* step, and the other actor's delete can come between any two.  The array *)
(* serves one call at a time.                                              *)

\* The outcomes of a create call that is passed None as its pool: the array
\* rejects the call (api_wrapper reports its message), or the client library
\* raises an exception api_wrapper does not catch.
NonePoolOutcomes == {"APICommandException", "Exception"}

RacePlays == {"volume", "filesystem"}

\* The module the play runs, its parameters, its remote calls and its
\* resources on the array.
RaceMod == IF play = "volume" THEN "vol" ELSE "fs"
RaceParams == IF play = "volume" THEN VolParams ELSE FsParams
RaceOps ==
    IF play = "volume"
    THEN [get |-> "volumes.get", create |-> "volumes.create",
          get_size |-> "volume.get_size", update_size |-> "volume.update_size"]
    ELSE [get |-> "filesystems.get", create |-> "filesystems.create",
          get_size |-> "filesystem.get_size",
          update_size |-> "filesystem.update_size"]
Datasets == IF play = "volume" THEN volumes ELSE filesystems

\* An invocation with parameters p about to run main.  pool is what the
\* latest get_pool returned (TRUE: a pool, FALSE: None): main's local
\* variable, then the argument create_volume passes on.
RaceProc(p) == [p |-> p, pc |-> "main", calls |-> <<>>, pool |-> FALSE]

\* The invocation goes on to its next remote call; nothing is reported.
RaceStep(next) ==
    /\ procs' = next
    /\ UNCHANGED <<volumes, filesystems, last>>

\* exit_json or fail_json with result r: the invocation ends, and the next
\* one is about to run main.
RaceEnd(r, fault) ==
    /\ volumes' = IF play = "volume" THEN r.arr ELSE volumes
    /\ filesystems' = IF play = "filesystem" THEN r.arr ELSE filesystems
    /\ last' = Invocation(RaceMod, procs.p, r, fault)
    /\ \E q \in RaceParams : procs' = RaceProc(q)

\* One invocation at a time, the first about to run main; each pool exists
\* or not.
RaceInit ==
    /\ play \in RacePlays
    /\ pools \in [PoolNames -> {NoPool, SeedPool}]
    /\ volumes = [n \in VolNames |-> NoVolume]
    /\ filesystems = [n \in FsNames |-> NoVolume]
    /\ exports = [n \in ExportPaths |-> NoExport]
    /\ hosts = [n \in HostNames |-> NoHost]
    /\ last = NoInvocation
    /\ procs \in {RaceProc(q) : q \in RaceParams}

\* main: the size is validated, then system = get_system(module).
RaceLogin ==
    /\ procs.pc = "main"
    /\ \E auth \in SystemFaults :
         LET p == procs.p
             system == get_system(Datasets, auth)
         IN  IF Given(p.size) /\ ~ValidCapacity(p.size)
             THEN RaceEnd(fail_json(Datasets, BadSizeMsg(RaceMod), <<>>), auth)
             ELSE IF system.out = "failed"
             THEN RaceEnd(system, auth)
             ELSE RaceStep([procs EXCEPT !.pc = "get_pool", !.calls = system.calls])
    /\ UNCHANGED <<play, pools, exports, hosts>>

\* main: pool = get_pool(module, system).
RaceGetPool ==
    /\ procs.pc = "get_pool"
    /\ LET pool == dataset_get_pool(pools, procs.p)
       IN  RaceStep([procs EXCEPT
                       !.pc = "get_dataset", !.pool = pool.exists,
                       !.calls = Append(@, Call("pools.get", procs.p.pool,
                                                pool.exists))])
    /\ UNCHANGED <<play, pools, exports, hosts>>

\* main: volume = get_volume(module, system), then `if pool is None` and the
\* if/elif chain up to the next remote call.
RaceGetDataset ==
    /\ procs.pc = "get_dataset"
    /\ LET p == procs.p
           found == Datasets[p.name].exists
           calls == Append(procs.calls, Call(RaceOps.get, p.name, found))
       IN  IF ~procs.pool
           THEN RaceEnd(fail_json(Datasets, <<"Pool {} not found", p.pool>>, calls),
                        "none")
           ELSE CASE p.state = "present" /\ ~found
                       -> RaceStep([procs EXCEPT !.pc = "create_get_pool",
                                                 !.calls = calls])
                  [] p.state = "present" /\ found /\ Given(p.size)
                       -> RaceStep([procs EXCEPT !.pc = "get_size",
                                                 !.calls = calls])
                  [] p.state = "present" /\ found /\ ~Given(p.size)
                       -> RaceEnd(exit_json(Datasets, FALSE, calls), "none")
                  [] p.state = "absent" /\ found
                       -> RaceStep([procs EXCEPT !.pc = "delete",
                                                 !.calls = calls])
                  [] p.state = "absent" /\ ~found
                       -> RaceEnd(exit_json(Datasets, FALSE, calls), "none")
    /\ UNCHANGED <<play, pools, exports, hosts>>

\* create_volume: the argument pool=get_pool(module, system) of the create
\* call is evaluated, a lookup of its own.
RaceCreateGetPool ==
    /\ procs.pc = "create_get_pool"
    /\ LET pool == dataset_get_pool(pools, procs.p)
       IN  RaceStep([procs EXCEPT
                       !.pc = "create", !.pool = pool.exists,
                       !.calls = Append(@, Call("pools.get", procs.p.pool,
                                                pool.exists))])
    /\ UNCHANGED <<play, pools, exports, hosts>>

\* create_volume: system.volumes.create(name, pool).  With None as the pool
\* the call creates nothing; with a pool that has been deleted since it was
\* looked up the array refuses the call and api_wrapper reports its message.
RaceCreate ==
    /\ procs.pc = "create"
    /\ LET p == procs.p
           d == datasets_create(Datasets, p.name, p.pool)
           calls == Append(procs.calls, Call(RaceOps.create, p.pool, TRUE))
       IN  CASE ~procs.pool
                  -> \E outcome \in NonePoolOutcomes :
                       RaceEnd(fail_json(Datasets, <<outcome, RaceOps.create>>,
                                         Append(procs.calls,
                                                Call(RaceOps.create, "", FALSE))),
                               "none")
             [] procs.pool /\ ~pools[p.pool].exists
                  -> RaceEnd(api_wrapper(Datasets, RaceOps.create, p.pool,
                                         procs.calls), "none")
             [] procs.pool /\ pools[p.pool].exists /\ Given(p.size)
                  -> /\ procs' = [procs EXCEPT !.pc = "update_size",
                                               !.calls = calls]
                     /\ volumes' = IF play = "volume" THEN d ELSE volumes
                     /\ filesystems' = IF play = "filesystem" THEN d
                                       ELSE filesystems
                     /\ UNCHANGED last
             [] procs.pool /\ pools[p.pool].exists /\ ~Given(p.size)
                  -> RaceEnd(exit_json(d, TRUE, calls), "none")
    /\ UNCHANGED <<play, pools, exports, hosts>>

\* update_volume: if volume.get_size() != size
RaceGetSize ==
    /\ procs.pc = "get_size"
    /\ LET p == procs.p
           size == roundup(Capacity(p.size), VolAlign)
           calls == Append(procs.calls, Call(RaceOps.get_size, "", TRUE))
       IN  IF Datasets[p.name].size # size
           THEN RaceStep([procs EXCEPT !.pc = "update_size", !.calls = calls])
           ELSE RaceEnd(exit_json(Datasets, FALSE, calls), "none")
    /\ UNCHANGED <<play, pools, exports, hosts>>

\* create_volume and update_volume: volume.update_size(size), then
\* exit_json(changed=True).
RaceUpdateSize ==
    /\ procs.pc = "update_size"
    /\ LET p == procs.p
           size == roundup(Capacity(p.size), VolAlign)
       IN  RaceEnd(exit_json([Datasets EXCEPT ![p.name].size = size], TRUE,
                             Append(procs.calls,
                                    Call(RaceOps.update_size, size, TRUE))),
                   "none")
    /\ UNCHANGED <<play, pools, exports, hosts>>

\* delete_volume: volume.delete(), then exit_json(changed=True).
RaceDelete ==
    /\ procs.pc = "delete"
    /\ RaceEnd(IF play = "volume"
               THEN delete_volume(volumes, procs.p, procs.calls)
               ELSE delete_filesystem(filesystems, procs.p, procs.calls),
               "none")
    /\ UNCHANGED <<play, pools, exports, hosts>>

\* The other actor deletes a pool, whatever the pool holds.  (What the array
\* answers to the delete of a pool that holds volumes or filesystems is not
\* in the source; a delete the array refuses is no step.)
PoolDeleted ==
    /\ \E n \in PoolNames :
         /\ pools[n].exists
         /\ pools' = [pools EXCEPT ![n] = NoPool]
    /\ UNCHANGED <<play, volumes, filesystems, exports, hosts, last, procs>>

RaceNext ==
    \/ RaceLogin
    \/ RaceGetPool
    \/ RaceGetDataset
    \/ RaceCreateGetPool
    \/ RaceCreate
    \/ RaceGetSize
    \/ RaceUpdateSize
    \/ RaceDelete
    \/ PoolDeleted

SpecRace == RaceInit /\ [][RaceNext]_vars

---------------------------------------------------------------------------
(* One invocation statement by statement: main's checks, which end the     *)
(* process through fail_json when they fail, then main's if/elif chain,    *)
(* whose branch ends the process through exit_json or fail_json.           *)

\* A mutant of sys_exit: exit_json and fail_json return to their caller.
sys_exit_returns(next) == next

\* sys.exit() at the end of exit_json and fail_json: the process ends,
\* whatever statement `next` follows the call.
sys_exit(next) == "exited"

\* The parameters of the module a play runs.
ParamsOf(pl) ==
    CASE pl = "pool" -> PoolErrParams
      [] pl = "volume" -> VolErrParams
      [] pl = "filesystem" -> FsErrParams
      [] pl = "export" -> ExportParams
      [] pl = "export_client" -> ClientParams
      [] pl = "host" -> HostParams

\* main of the play's module, whole, when get_system ends as `auth` says.
MainOf(pl, p, auth) ==
    CASE pl = "pool" -> infini_pool_main(pools, p, auth)
      [] pl = "volume" -> infini_vol_main(pools, volumes, p, auth)
      [] pl = "filesystem" -> infini_fs_main(pools, filesystems, p, auth)
      [] pl = "export" -> infini_export_main(filesystems, exports, p, auth)
      [] pl = "export_client" -> infini_export_client_main(exports, p, auth)
      [] pl = "host" -> infini_host_main(volumes, hosts, p, auth)

\* The lookups main has made when it reaches its if/elif chain.
LookupsOf(pl, p) ==
    get_system(<<>>, "none").calls \o
    CASE pl = "pool" -> <<Call("pools.get", p.name, pools[p.name].exists)>>
      [] pl = "volume" -> <<Call("pools.get", p.pool, pools[p.pool].exists),
                            Call("volumes.get", p.name, volumes[p.name].exists)>>
      [] pl = "filesystem" ->
           <<Call("pools.get", p.pool, pools[p.pool].exists),
             Call("filesystems.get", p.name, filesystems[p.name].exists)>>
      [] pl = "export" ->
           <<Call("filesystems.get", p.filesystem, filesystems[p.filesystem].exists),
             Call("exports.to_list", p.name, exports[p.name].exists)>>
      [] pl = "export_client" -> <<Call("exports.get", p.export, exports[p.export].exists)>>
      [] pl = "host" ->
           <<Call("hosts.to_list", p.name, hosts[p.name].exists)>>
           \o IF p.volume # ""
              THEN <<Call("volumes.get", p.volume, volumes[p.volume].exists)>>
              ELSE <<>>

\* The checks of main before its if/elif chain: does one of them call
\* fail_json?  (A malformed size; get_system finding no credentials or
\* failing to log in; a pool, filesystem, export or volume that is not
\* found.)
CheckFails(pl, p, auth) ==
    \/ auth # "none"
    \/ CASE pl = "pool" -> \/ Given(p.size) /\ ~ValidCapacity(p.size)
                           \/ Given(p.vsize) /\ ~ValidCapacity(p.vsize)
         [] pl \in {"volume", "filesystem"} ->
              \/ Given(p.size) /\ ~ValidCapacity(p.size)
              \/ ~pools[p.pool].exists
         [] pl = "export" -> ~filesystems[p.filesystem].exists
         [] pl = "export_client" -> ~exports[p.export].exists
         [] pl = "host" -> p.volume # "" /\ ~volumes[p.volume].exists

\* The if/elif chain at the end of main, entered after `calls`.
DispatchOf(pl, p, calls) ==
    CASE pl = "pool" ->
           (CASE p.state = "present" /\ ~pools[p.name].exists -> create_pool(pools, p, calls)
              [] p.state = "present" /\ pools[p.name].exists  -> update_pool(pools, p, calls)
              [] p.state = "absent" /\ pools[p.name].exists   -> delete_pool(pools, p, calls)
              [] p.state = "absent" /\ ~pools[p.name].exists  -> exit_json(pools, FALSE, calls))
      [] pl = "volume" ->
           (CASE p.state = "present" /\ ~volumes[p.name].exists
                   -> create_volume(pools, volumes, p, calls)
              [] p.state = "present" /\ volumes[p.name].exists
                   -> update_volume(volumes, p, calls)
              [] p.state = "absent" /\ volumes[p.name].exists
                   -> delete_volume(volumes, p, calls)
              [] p.state = "absent" /\ ~volumes[p.name].exists
                   -> exit_json(volumes, FALSE, calls))
      [] pl = "filesystem" ->
           (CASE p.state = "present" /\ ~filesystems[p.name].exists
                   -> create_filesystem(pools, filesystems, p, calls)
              [] p.state = "present" /\ filesystems[p.name].exists
                   -> update_filesystem(filesystems, p, calls)
              [] p.state = "absent" /\ filesystems[p.name].exists
                   -> delete_filesystem(filesystems, p, calls)
              [] p.state = "absent" /\ ~filesystems[p.name].exists
                   -> exit_json(filesystems, FALSE, calls))
      [] pl = "export" ->
           (CASE p.state = "present" -> update_export(exports, p, calls)
              [] exports[p.name].exists /\ p.state = "absent"
                   -> delete_export(exports, p, calls)
              [] ~exports[p.name].exists /\ p.state = "absent"
                   -> exit_json(exports, FALSE, calls))
      [] pl = "export_client" ->
           IF p.state = "present" THEN update_client(exports, p, calls)
           ELSE delete_client(exports, p, calls)
      [] pl = "host" ->
           (CASE hosts[p.name].exists /\ p.state = "present"
                   -> update_host(hosts, p, calls)
              [] hosts[p.name].exists /\ p.state = "absent"
                   -> delete_host(hosts, p, calls)
              [] ~hosts[p.name].exists /\ p.state = "absent"
                   -> exit_json(hosts, FALSE, calls)
              [] OTHER -> create_host(volumes, hosts, p, calls))

\* No invocation is running.
IdleProc ==
    [p |-> <<>>, pc |-> "start", reports |-> <<>>, calls |-> <<>>, late |-> 0]

\* The arrays of Init, with no invocation running.
RunInit ==
    /\ play \in Plays
    /\ pools \in [PoolNames -> {NoPool, SeedPool}]
    /\ play = "pool" => pools = [n \in PoolNames |-> NoPool]
    /\ play \notin {"pool", "volume", "filesystem"}
         => pools = [n \in PoolNames |-> SeedPool]
    /\ volumes \in [VolNames -> {NoVolume} \cup {SeedDataset(n) : n \in VolNames}]
    /\ play # "host" => volumes = [n \in VolNames |-> NoVolume]
    /\ filesystems \in [FsNames -> {NoVolume} \cup {SeedDataset(n) : n \in FsNames}]
    /\ play = "export_client" => filesystems = [n \in FsNames |-> SeedDataset(n)]
    /\ play \notin {"export", "export_client"}
         => filesystems = [n \in FsNames |-> NoVolume]
    /\ exports \in [ExportPaths -> SeedExports]
    /\ play # "export_client" => exports = [n \in ExportPaths |-> NoExport]
    /\ hosts = [n \in HostNames |-> NoHost]
    /\ last = NoInvocation
    /\ procs = IdleProc

\* main up to its if/elif chain: a failing check reports through fail_json,
\* which ends the process.  (An entry is appended to a permission list only
\* while the list is shorter than MaxPerms.)
RunChecks ==
    /\ procs.pc = "start"
    /\ \E p \in ParamsOf(play), auth \in SystemFaults :
         /\ play = "export_client"
              => Len(MainOf(play, p, auth).arr[p.export].perms) <= MaxPerms
         /\ IF CheckFails(play, p, auth)
            THEN procs' = [p |-> p, pc |-> sys_exit("dispatch"),
                           reports |-> <<"failed">>,
                           calls |-> MainOf(play, p, auth).calls, late |-> 0]
            ELSE procs' = [p |-> p, pc |-> "dispatch", reports |-> <<>>,
                           calls |-> LookupsOf(play, p), late |-> 0]
    /\ UNCHANGED <<play, pools, volumes, filesystems, exports, hosts, last>>

\* The if/elif chain of main: the branch taken issues its calls and reports
\* through exit_json, which ends the process; main has no statement after.
RunDispatch ==
    /\ procs.pc = "dispatch"
    /\ LET r == DispatchOf(play, procs.p, procs.calls)
       IN  /\ procs' = [procs EXCEPT
                          !.pc = sys_exit("end"),
                          !.reports = Append(procs.reports, r.out),
                          !.calls = r.calls,
                          !.late = IF procs.reports # <<>>
                                   THEN Len(r.calls) - Len(procs.calls) ELSE 0]
           /\ pools' = IF play = "pool" THEN r.arr ELSE pools
           /\ volumes' = IF play = "volume" THEN r.arr ELSE volumes
           /\ filesystems' = IF play = "filesystem" THEN r.arr ELSE filesystems
           /\ exports' = IF play \in {"export", "export_client"} THEN r.arr ELSE exports
           /\ hosts' = IF play = "host" THEN r.arr ELSE hosts
    /\ UNCHANGED <<play, last>>

\* The process has ended; the play goes on to its next invocation.
RunEnd ==
    /\ procs.pc \in {"exited", "end"}
    /\ procs' = IdleProc
    /\ UNCHANGED <<play, pools, volumes, filesystems, exports, hosts, last>>

RunNext ==
    \/ RunChecks
    \/ RunDispatch
    \/ RunEnd

\* The array answers every call, so a statement that can run does run.
SpecRun == RunInit /\ [][RunNext]_vars /\ WF_vars(RunNext)

---------------------------------------------------------------------------
(* Reading an invocation record.                                           *)

\* The names of the mutating calls of a call log, in order.
RECURSIVE MutatingCalls(_)
MutatingCalls(calls) ==
    IF calls = <<>> THEN <<>>
    ELSE IF Head(calls).op \in MutatingOps
         THEN <<Head(calls).op>> \o MutatingCalls(Tail(calls))
         ELSE MutatingCalls(Tail(calls))

\* How many calls of the log are calls of op.
Count(calls, op) == Cardinality({i \in 1..Len(calls) : calls[i].op = op})

\* Whether the (first) lookup op of the log found its resource.
Found(calls, op) ==
    \E i \in 1..Len(calls) : calls[i].op = op /\ calls[i].ret

\* Per module: the lookup of the reconciled resource, its create call and
\* its delete call.
TargetLookup ==
    [pool |-> "pools.get", vol |-> "volumes.get", fs |-> "filesystems.get",
     export |-> "exports.to_list", host |-> "hosts.to_list"]
CreateCall ==
    [pool |-> "pools.create", vol |-> "volumes.create",
     fs |-> "filesystems.create", export |-> "exports.create",
     host |-> "hosts.create"]
DeleteCall ==
    [pool |-> "pool.delete", vol |-> "volume.delete", fs |-> "filesystem.delete",
     export |-> "export.delete", host |-> "host.delete"]

\* The modules with a create and a delete call.
Kinds == {"pool", "vol", "fs", "export", "host"}

\* Whether invocation inv found the resource it reconciles.
TargetFound(inv) ==
    IF inv.mod = "host"
    THEN Found(inv.calls, "hosts.to_list")
    ELSE Found(inv.calls, TargetLookup[inv.mod])

\* Whether invocation inv names a parent that must exist.
NeedsParent(inv) ==
    \/ inv.mod \in {"vol", "fs", "export", "export_client"}
    \/ inv.mod = "host" /\ inv.p.volume # ""

\* Whether the parent invocation inv names was found.
ParentFound(inv) ==
    CASE inv.mod \in {"vol", "fs"}    -> Found(inv.calls, "pools.get")
      [] inv.mod = "export"          -> Found(inv.calls, "filesystems.get")
      [] inv.mod = "export_client"   -> Found(inv.calls, "exports.get")
      [] inv.mod = "host"            -> Found(inv.calls, "volumes.get")
      [] OTHER                       -> TRUE

\* Whether the resource invocation inv reconciled exists on the array now.
ExistsNow(inv) ==
    CASE inv.mod = "pool"   -> pools[inv.p.name].exists
      [] inv.mod = "vol"    -> volumes[inv.p.name].exists
      [] inv.mod = "fs"     -> filesystems[inv.p.name].exists
      [] inv.mod = "export" -> exports[inv.p.name].exists
      [] inv.mod = "host"   -> hosts[inv.p.name].exists

\* The not-found message of the parent invocation inv names.
NotFoundMsg(inv) ==
    CASE inv.mod \in {"vol", "fs"}  -> <<"Pool {} not found", inv.p.pool>>
      [] inv.mod = "export"        -> <<"Filesystem {} not found", inv.p.filesystem>>
      [] inv.mod = "export_client" -> <<"Export with export path {} not found", inv.p.export>>
      [] inv.mod = "host"          -> <<"Volume {} not found", inv.p.volume>>

\* Whether get_system returned the system to invocation inv: its login
\* succeeded.  (The invocation did not end in get_system, nor in the
\* validation of a size before it.)
LoggedIn(inv) == Found(inv.calls, "login")

\* A step that is an invocation of module mod that logged in: a reconcile.
Invoked(mod) ==
    last'.tick # last.tick /\ last'.mod = mod /\ LoggedIn(last')

---------------------------------------------------------------------------
(* C1                                                                      *)

\* Parameters with state=present and only size given (ssd_cache defaults to
\* true).
OnlySize(p) ==
    p.state = "present" /\ Given(p.size) /\ ~Given(p.vsize) /\ p.ssd_cache

\* C1: reconciling a pool that does not exist with state=present and only
\* size=s issues one mutating call, a create with physical = virtual =
\* Capacity(s), and reports changed=true; the reconcile that immediately
\* follows with the same parameters reports changed=false and issues no
\* mutating call.
C1_CreateThenUnchanged ==
    [][/\ (Invoked("pool") /\ OnlySize(last'.p) /\ ~pools[last'.p.name].exists)
          => /\ last'.out = "changed"
             /\ MutatingCalls(last'.calls) = <<"pools.create">>
             /\ \A i \in 1..Len(last'.calls) :
                  last'.calls[i].op = "pools.create"
                  => /\ last'.calls[i].arg.physical_capacity = Capacity(last'.p.size)
                     /\ last'.calls[i].arg.virtual_capacity = Capacity(last'.p.size)
       /\ (/\ last.mod = "pool" /\ OnlySize(last.p)
           /\ Count(last.calls, "pools.create") = 1
           /\ Invoked("pool") /\ last'.p = last.p)
          => /\ last'.out = "unchanged"
             /\ MutatingCalls(last'.calls) = <<>>]_vars

\* A pool created from a size that is not a multiple of the array's
\* boundary was reconciled again with the same size: unchanged.
C1_Witness ==
    /\ last.mod = "pool" /\ OnlySize(last.p) /\ last.out = "unchanged"
    /\ Capacity(last.p.size) # roundup(Capacity(last.p.size), PoolAlign)
    /\ pools[last.p.name].phys = roundup(Capacity(last.p.size), PoolAlign)
    /\ pools[last.p.name].virt = pools[last.p.name].phys

---------------------------------------------------------------------------
(* C2                                                                      *)

\* C2: for infini_vol, infini_fs, infini_export, infini_export_client and
\* infini_host, after a reconcile with state=present that did not fail, the
\* next reconcile with the same parameters reports changed=false and issues
\* no mutating call.
C2_PresentIdempotent ==
    [][(/\ last.mod \in {"vol", "fs", "export", "export_client", "host"}
        /\ last.p.state = "present"
        /\ last.out \in {"changed", "unchanged"}
        /\ Invoked(last.mod) /\ last'.p = last.p)
       => /\ last'.out = "unchanged"
          /\ MutatingCalls(last'.calls) = <<>>]_vars

\* A volume was reconciled with a size that needs rounding and found
\* unchanged: its size on the array is the rounded size.
C2_Witness ==
    /\ last.mod = "vol" /\ last.p.state = "present" /\ last.out = "unchanged"
    /\ Given(last.p.size)
    /\ Capacity(last.p.size) # roundup(Capacity(last.p.size), VolAlign)
    /\ volumes[last.p.name].size = roundup(Capacity(last.p.size), VolAlign)

---------------------------------------------------------------------------
(* C3                                                                      *)

\* The part of C3 on the five kinds the array creates and deletes as objects
\* (pool, volume, filesystem, export, host): when the invocation logged in
\* and the parent it names exists, state=present with the resource absent
\* issues exactly one create call (and no delete), reports changed=true and
\* the resource exists afterwards; state=absent with the resource present
\* issues exactly one delete call (and no create), reports changed=true and
\* the resource is gone afterwards.
C3_Objects ==
    (/\ last.mod \in Kinds /\ LoggedIn(last)
     /\ (NeedsParent(last) => ParentFound(last)))
    => /\ (last.p.state = "present" /\ ~TargetFound(last))
          => /\ last.out = "changed"
             /\ Count(last.calls, CreateCall[last.mod]) = 1
             /\ Count(last.calls, DeleteCall[last.mod]) = 0
             /\ ExistsNow(last)
       /\ (last.p.state = "absent" /\ TargetFound(last))
          => /\ last.out = "changed"
             /\ MutatingCalls(last.calls) = <<DeleteCall[last.mod]>>
             /\ ~ExistsNow(last)

\* A host was created with ports and a mapped volume.
C3_ObjectsReached ==
    /\ last.mod = "host" /\ last.p.state = "present" /\ ~TargetFound(last)
    /\ last.out = "changed" /\ Len(last.p.wwns) = 2 /\ last.p.volume # ""
    /\ hosts[last.p.name].exists

\* Whether permission list l holds an entry for client k: what a lookup of
\* the export client finds.
HasClient(l, k) == \E i \in 1..Len(l) : l[i].client = k

\* The part of C3 on the sixth kind, the export client, an entry of its
\* export's permission list: the one call that creates or deletes it is the
\* update_permissions call that writes the list.  On an existing export (the
\* precondition), state=present with no entry for the client issues exactly
\* that call, reports changed=true and the entry exists afterwards;
\* state=absent with an entry for the client issues exactly that call,
\* reports changed=true and the list holds no entry for the client
\* afterwards.
C3_ExportClient ==
    (/\ Invoked("export_client") /\ exports[last'.p.export].exists)
    => LET k == last'.p.client
           old == exports[last'.p.export].perms
           new == exports'[last'.p.export].perms
       IN  /\ (last'.p.state = "present" /\ ~HasClient(old, k))
                => /\ last'.out = "changed"
                   /\ MutatingCalls(last'.calls) = <<"export.update_permissions">>
                   /\ HasClient(new, k)
           /\ (last'.p.state = "absent" /\ HasClient(old, k))
                => /\ last'.out = "changed"
                   /\ MutatingCalls(last'.calls) = <<"export.update_permissions">>
                   /\ ~HasClient(new, k)

\* The state=present half of C3_ExportClient alone.
C3_ExportClientPresent ==
    [][(/\ Invoked("export_client") /\ exports[last'.p.export].exists
        /\ last'.p.state = "present"
        /\ ~HasClient(exports[last'.p.export].perms, last'.p.client))
       => /\ last'.out = "changed"
          /\ MutatingCalls(last'.calls) = <<"export.update_permissions">>
          /\ HasClient(exports'[last'.p.export].perms, last'.p.client)]_vars

\* C3 as claimed: for every resource kind (pool, volume, filesystem, export,
\* export client, host), when the preconditions hold and every remote call
\* succeeds, state=present with the resource absent issues exactly one
\* create call and reports changed=true, after which the resource exists;
\* state=absent with the resource present issues exactly one delete call and
\* reports changed=true, after which a lookup of the resource finds nothing.
C3_CreateAndDelete_Claimed ==
    []C3_Objects /\ [][C3_ExportClient]_vars

---------------------------------------------------------------------------
(* C4                                                                      *)

\* C4 as claimed: for pool, volume, filesystem, export and host, a
\* reconcile (an invocation that logged in) with state=absent of a resource
\* that does not exist reports changed=false and issues no mutating call.
C4_AbsentNoop_Claimed ==
    (/\ last.mod \in Kinds /\ LoggedIn(last)
     /\ last.p.state = "absent" /\ ~TargetFound(last))
    => /\ last.out = "unchanged"
       /\ MutatingCalls(last.calls) = <<>>

\* C4 as amended: such a reconcile issues no mutating call; it reports
\* changed=false when the parent the invocation names exists (or it names
\* none), and fails with the parent's not-found message otherwise.
C4_AbsentNoop ==
    (/\ last.mod \in Kinds /\ LoggedIn(last)
     /\ last.p.state = "absent" /\ ~TargetFound(last))
    => /\ MutatingCalls(last.calls) = <<>>
       /\ IF NeedsParent(last) /\ ~ParentFound(last)
          THEN last.out = "failed" /\ last.msg = NotFoundMsg(last)
          ELSE last.out = "unchanged"

\* An export that does not exist was reconciled with state=absent on an
\* existing filesystem: unchanged.
C4_Witness ==
    /\ last.mod = "export" /\ last.p.state = "absent" /\ ~TargetFound(last)
    /\ ParentFound(last) /\ last.out = "unchanged"

---------------------------------------------------------------------------
(* C5                                                                      *)

\* C5: when the parent named by an invocation that logged in does not
\* exist (the pool of a volume or filesystem, the filesystem of an export,
\* the export of an export client, the volume given for a host), the
\* invocation fails with
\* the parent's not-found message, whatever the desired state, and has
\* issued no mutating call.
C5_ParentNotFound ==
    (/\ last.mod # "none" /\ LoggedIn(last)
     /\ NeedsParent(last) /\ ~ParentFound(last))
    => /\ last.out = "failed"
       /\ last.msg = NotFoundMsg(last)
       /\ MutatingCalls(last.calls) = <<>>

\* An existing export was reconciled with state=absent naming a filesystem
\* that does not exist: the invocation failed and the export is still there.
C5_Witness ==
    /\ last.mod = "export" /\ last.p.state = "absent" /\ last.out = "failed"
    /\ ~ParentFound(last) /\ TargetFound(last)
    /\ exports[last.p.name].exists
---------------------------------------------------------------------------
(* C6                                                                      *)

\* Parameters with state=present and vsize but no size.
OnlyVsize(p) == p.state = "present" /\ Given(p.vsize) /\ ~Given(p.size)

\* C6 as claimed: for an existing pool whose virtual capacity differs from
\* the desired vsize, a reconcile that supplies vsize but no size issues the
\* virtual-capacity update only, leaves the physical capacity as it was and
\* reports changed=true.
C6_VsizeOnly_Claimed ==
    [][(/\ Invoked("pool") /\ OnlyVsize(last'.p)
        /\ pools[last'.p.name].exists
        /\ pools[last'.p.name].virt # Capacity(last'.p.vsize))
       => /\ MutatingCalls(last'.calls) = <<"pool.update_virtual_capacity">>
          /\ pools'[last'.p.name].phys = pools[last'.p.name].phys
          /\ last'.out = "changed"]_vars

\* C6 as amended: for an existing pool whose virtual capacity differs from
\* the desired vsize rounded up to 6 * 64 KiB, such a reconcile issues the
\* virtual-capacity update with the rounded vsize, no physical-capacity
\* update, and the ssd-cache update exactly when the pool's flag differs
\* from ssd_cache; the physical capacity is as it was and changed=true is
\* reported.
C6_VsizeOnly ==
    [][(/\ Invoked("pool") /\ OnlyVsize(last'.p)
        /\ pools[last'.p.name].exists
        /\ pools[last'.p.name].virt # roundup(Capacity(last'.p.vsize), PoolAlign))
       => /\ MutatingCalls(last'.calls) =
                IF pools[last'.p.name].ssd # last'.p.ssd_cache
                THEN <<"pool.update_virtual_capacity", "pool.update_ssd_enabled">>
                ELSE <<"pool.update_virtual_capacity">>
          /\ pools'[last'.p.name].phys = pools[last'.p.name].phys
          /\ pools'[last'.p.name].virt = roundup(Capacity(last'.p.vsize), PoolAlign)
          /\ last'.out = "changed"]_vars

\* A pool was reconciled with vsize alone and only its virtual capacity was
\* updated: it now differs from the physical capacity.
C6_Witness ==
    /\ last.mod = "pool" /\ OnlyVsize(last.p) /\ last.out = "changed"
    /\ MutatingCalls(last.calls) = <<"pool.update_virtual_capacity">>
    /\ pools[last.p.name].virt = roundup(Capacity(last.p.vsize), PoolAlign)
    /\ pools[last.p.name].phys # pools[last.p.name].virt

---------------------------------------------------------------------------
(* C7                                                                      *)

\* The entries of a permission list, compared by all their fields.
EntrySet(l) == {l[i] : i \in 1..Len(l)}

\* A step that reconciles an existing export with state=present, a supplied
\* client_list and an existing filesystem.
ExportUpdate ==
    /\ Invoked("export") /\ last'.p.state = "present"
    /\ ~last'.p.client_list.none
    /\ filesystems[last'.p.filesystem].exists
    /\ exports[last'.p.name].exists

\* C7: for an existing export and a supplied client_list: when the list
\* holds the same entries as the export's permissions (by all fields, in any
\* order, duplicates collapsed) the reconcile reports changed=false, issues
\* no permission call and leaves the permissions as they are; when the list
\* is the current entries plus one more entry it reports changed=true and
\* the permission set afterwards is the union.
C7_SameOrOneMore ==
    [][ExportUpdate
       => LET cur == EntrySet(exports[last'.p.name].perms)
              want == EntrySet(last'.p.client_list.items)
          IN  /\ want = cur
                 => /\ last'.out = "unchanged"
                    /\ Count(last'.calls, "export.update_permissions") = 0
                    /\ exports' = exports
              /\ (cur \subseteq want /\ Cardinality(want \ cur) = 1)
                 => /\ last'.out = "changed"
                    /\ EntrySet(exports'[last'.p.name].perms) = want]_vars

\* An export was reconciled with a list that is not its permission list but
\* holds the same two entries (in another order): unchanged.
C7_Witness ==
    /\ last.mod = "export" /\ last.p.state = "present" /\ last.out = "unchanged"
    /\ Truthy(last.p.client_list)
    /\ exports[last.p.name].exists
    /\ exports[last.p.name].perms # last.p.client_list.items
    /\ EntrySet(exports[last.p.name].perms) = EntrySet(last.p.client_list.items)
    /\ Cardinality(EntrySet(last.p.client_list.items)) = 2

---------------------------------------------------------------------------
(* C8                                                                      *)

\* A step that reconciles client k with state=present on an export that has
\* an entry for k with another access mode.
ClientAccessChange ==
    /\ Invoked("export_client") /\ last'.p.state = "present"
    /\ exports[last'.p.export].exists
    /\ \E i \in 1..Len(exports[last'.p.export].perms) :
         /\ exports[last'.p.export].perms[i].client = last'.p.client
         /\ exports[last'.p.export].perms[i].access # last'.p.access_mode

\* C8 as claimed: such a reconcile changes only the access field of the
\* entries for k, reports changed=true, and every entry whose client is not
\* k is the same afterwards.
C8_AccessOnly_Claimed ==
    [][ClientAccessChange
       => LET old == exports[last'.p.export].perms
              new == exports'[last'.p.export].perms
          IN  /\ last'.out = "changed"
              /\ Len(new) = Len(old)
              /\ \A i \in 1..Len(old) :
                   new[i] = IF old[i].client = last'.p.client
                            THEN [old[i] EXCEPT !.access = last'.p.access_mode]
                            ELSE old[i]]_vars

\* C8 as amended: such a reconcile sets the access field of every entry for
\* k to access_mode and its no_root_squash field to the no_root_squash of
\* the invocation (false unless given), reports changed=true, and every
\* entry whose client is not k is the same afterwards, at the same place.
C8_AccessAndSquash ==
    [][ClientAccessChange
       => LET old == exports[last'.p.export].perms
              new == exports'[last'.p.export].perms
          IN  /\ last'.out = "changed"
              /\ Len(new) = Len(old)
              /\ \A i \in 1..Len(old) :
                   new[i] = IF old[i].client = last'.p.client
                            THEN [client |-> last'.p.client,
                                  access |-> last'.p.access_mode,
                                  no_root_squash |-> last'.p.no_root_squash]
                            ELSE old[i]]_vars

\* Client k was reconciled on a list whose first entry is k's and whose
\* second is another client's; k's entry was rewritten (an appended entry
\* would be the last one).
C8_Witness ==
    /\ last.mod = "export_client" /\ last.p.state = "present"
    /\ last.out = "changed"
    /\ Len(exports[last.p.export].perms) = 2
    /\ exports[last.p.export].perms[1].client = last.p.client
    /\ exports[last.p.export].perms[1].access = last.p.access_mode
    /\ exports[last.p.export].perms[2].client # last.p.client

---------------------------------------------------------------------------
(* C9                                                                      *)

\* The entries of l for client k, and the list l without them.
RECURSIVE Without(_, _)
Without(l, k) ==
    IF l = <<>> THEN <<>>
    ELSE IF Head(l).client = k
         THEN Without(Tail(l), k)
         ELSE <<Head(l)>> \o Without(Tail(l), k)

\* C9 as claimed: a reconcile of client k with state=absent removes every
\* entry of the export for k, leaves every other entry in place, and reports
\* changed=true iff an entry was removed.
C9_RemoveAll_Claimed ==
    [][(/\ Invoked("export_client") /\ last'.p.state = "absent"
        /\ exports[last'.p.export].exists)
       => LET old == exports[last'.p.export].perms
              new == exports'[last'.p.export].perms
          IN  /\ new = Without(old, last'.p.client)
              /\ (last'.out = "changed") = (new # old)
              /\ last'.out \in {"changed", "unchanged"}]_vars

---------------------------------------------------------------------------
(* C10                                                                     *)

\* C10 as claimed: for an existing export and every supplied client_list
\* (the empty list too) whose entry set differs from the export's
\* permission set, the reconcile replaces the permissions: afterwards the
\* permission set is the desired set and changed=true is reported.
C10_Wholesale_Claimed ==
    [][(ExportUpdate
        /\ EntrySet(last'.p.client_list.items)
             # EntrySet(exports[last'.p.name].perms))
       => /\ EntrySet(exports'[last'.p.name].perms)
               = EntrySet(last'.p.client_list.items)
          /\ last'.out = "changed"]_vars

---------------------------------------------------------------------------
(* C11                                                                     *)

\* C11: an export created by a reconcile that supplies no client_list has,
\* after the invocation, the single permission entry {client "*", access
\* RW, no_root_squash true}.
C11_DefaultPermissions ==
    [][(/\ Invoked("export") /\ last'.p.client_list.none
        /\ ~exports[last'.p.name].exists
        /\ exports'[last'.p.name].exists)
       => exports'[last'.p.name].perms =
            <<[client |-> "*", access |-> "RW", no_root_squash |-> TRUE]>>]_vars

\* An export was created by an invocation without client_list: exports.create
\* is its only mutating call.
C11_Witness ==
    /\ last.mod = "export" /\ last.p.client_list.none /\ last.out = "changed"
    /\ MutatingCalls(last.calls) = <<"exports.create">>
    /\ exports[last.p.name].exists
    /\ Len(exports[last.p.name].perms) = 1

---------------------------------------------------------------------------
(* C12                                                                     *)

\* The arguments of the calls of op in a call log, in order.
ArgsOf(calls, op) ==
    LET sel == SelectSeq(calls, LAMBDA c : c.op = op)
    IN  [i \in 1..Len(sel) |-> sel[i].arg]

\* The size-update check of one dataset kind: `before` and `after` are the
\* dataset before and after invocation inv, op its size-update call.
SizeReconciled(inv, before, after, op) ==
    LET size == roundup(Capacity(inv.p.size), VolAlign)
        issued == Count(inv.calls, op) > 0
    IN  /\ MutatingCalls(inv.calls) = IF issued THEN <<op>> ELSE <<>>
        /\ issued = (Given(inv.p.size) /\ before.size # size)
        /\ issued => ArgsOf(inv.calls, op) = <<size>> /\ after.size = size
        /\ ~issued => after = before
        /\ inv.out = IF issued THEN "changed" ELSE "unchanged"

\* C12: for an existing volume or filesystem (in an existing pool), a
\* state=present reconcile without size issues no update and reports
\* changed=false; with size s it issues the size update iff the current size
\* differs from s rounded up to 64 KiB, the update carries the rounded
\* value, and changed=true is reported exactly when the update was issued.
C12_SizeUpdate ==
    [][/\ (/\ Invoked("vol") /\ last'.p.state = "present"
           /\ pools[last'.p.pool].exists /\ volumes[last'.p.name].exists)
          => SizeReconciled(last', volumes[last'.p.name],
                            volumes'[last'.p.name], "volume.update_size")
       /\ (/\ Invoked("fs") /\ last'.p.state = "present"
           /\ pools[last'.p.pool].exists /\ filesystems[last'.p.name].exists)
          => SizeReconciled(last', filesystems[last'.p.name],
                            filesystems'[last'.p.name], "filesystem.update_size")]_vars

\* An existing volume was resized to a size that is not the size asked for
\* but that size rounded up.
C12_Witness ==
    /\ last.mod = "vol" /\ last.p.state = "present" /\ last.out = "changed"
    /\ MutatingCalls(last.calls) = <<"volume.update_size">>
    /\ volumes[last.p.name].size # Capacity(last.p.size)
    /\ volumes[last.p.name].size = roundup(Capacity(last.p.size), VolAlign)

---------------------------------------------------------------------------
(* C13                                                                     *)

\* C13: for every capacity x and alignment a > 0, roundup(x, a) is the
\* smallest multiple of a that is >= x (a multiple of a, at least x, and less
\* than a above x), and rounding the result up again leaves it as it is.
C13_Roundup ==
    last.done
    => /\ last.r % last.a = 0
       /\ last.r >= last.x
       /\ last.r - last.a < last.x
       /\ last.rr = last.r

\* 1GB, which is off the 6 * 64 KiB boundary, was rounded up to it.
C13_Witness ==
    /\ last.done
    /\ last.x = Capacity([n |-> 1, u |-> "GB"]) /\ last.a = PoolAlign
    /\ last.r > last.x

---------------------------------------------------------------------------
(* C14                                                                     *)

\* The update calls of update_pool, in the order it issues them.
PoolUpdateOps ==
    <<"pool.update_physical_capacity", "pool.update_virtual_capacity",
      "pool.update_ssd_enabled">>

\* A step that is an update of an existing pool in which an update call
\* failed after at least one other update call had been issued.
PoolUpdateFailedLate ==
    /\ Invoked("pool") /\ last'.p.state = "present"
    /\ pools[last'.p.name].exists
    /\ \E i \in 2..3 : last'.fault = PoolUpdateOps[i]
    /\ Count(last'.calls, last'.fault) > 0
    /\ Len(MutatingCalls(last'.calls)) > 1

\* C14: when an update of a pool has several fields to change and the
\* update call of a later field fails with a remote error, the invocation
\* reports an error carrying the array's message; the fields updated before
\* the failing call have their new values on the array and the other fields
\* the values they had; the failing call is the last call of the invocation
\* (nothing is rolled back) and is issued once (it is not retried).
C14_PartialUpdate ==
    [][PoolUpdateFailedLate
       => LET calls == last'.calls
              f == last'.fault
              old == pools[last'.p.name]
              new == pools'[last'.p.name]
              done(op) == Count(calls, op) > 0 /\ op # f
          IN  /\ last'.out = "failed"
              /\ last'.msg = <<"APICommandException", f>>
              /\ calls[Len(calls)].op = f
              /\ Count(calls, f) = 1
              /\ \A op \in MutatingOps : Count(calls, op) <= 1
              /\ new.phys = IF done(PoolUpdateOps[1])
                            THEN roundup(Capacity(last'.p.size), PoolAlign)
                            ELSE old.phys
              /\ new.virt = IF done(PoolUpdateOps[2])
                            THEN roundup(Capacity(last'.p.vsize), PoolAlign)
                            ELSE old.virt
              /\ new.ssd = old.ssd
              /\ \E i \in 1..3 : done(PoolUpdateOps[i])]_vars

\* The virtual-capacity update failed after the physical capacity had been
\* updated: the pool has the new physical capacity and the old virtual one.
C14_Witness ==
    /\ last.mod = "pool" /\ last.out = "failed"
    /\ last.fault = "pool.update_virtual_capacity"
    /\ MutatingCalls(last.calls) =
         <<"pool.update_physical_capacity", "pool.update_virtual_capacity">>
    /\ pools[last.p.name].phys = roundup(Capacity(last.p.size), PoolAlign)
    /\ pools[last.p.name].virt # roundup(Capacity(last.p.vsize), PoolAlign)

---------------------------------------------------------------------------
(* C15                                                                     *)

\* The lookups of the reconciled resource and of its parent.
LookupOps ==
    {"pools.get", "volumes.get", "filesystems.get", "exports.to_list",
     "exports.get", "hosts.to_list"}

\* C15 as claimed: when the array answers the lookup of the reconciled
\* resource or of its parent with an error, the invocation ends with an
\* error carrying the array's message and has issued no mutating call (the
\* failed lookup is not read as "the resource does not exist").
C15_LookupError_Claimed ==
    [][(/\ last'.tick # last.tick
        /\ last'.fault \in LookupOps
        /\ Count(last'.calls, last'.fault) > 0)
       => /\ last'.out = "failed"
          /\ last'.msg = <<"APICommandException", last'.fault>>
          /\ MutatingCalls(last'.calls) = <<>>]_vars

---------------------------------------------------------------------------
(* C16                                                                     *)

\* Invocation inv of infini_pool, infini_vol or infini_fs was given a
\* malformed size (or, infini_pool, a malformed vsize).
MalformedSize(inv) ==
    /\ inv.mod \in {"pool", "vol", "fs"}
    /\ \/ inv.p.size = BadSize
       \/ inv.mod = "pool" /\ inv.p.vsize = BadSize

\* C16: an invocation of infini_pool, infini_vol or infini_fs with a
\* malformed size (or vsize) ends with the validation error of that
\* parameter and has issued no call to the array, login and lookups
\* included; the array is as it was.
C16_BadSize ==
    [][(last'.tick # last.tick /\ MalformedSize(last'))
       => /\ last'.out = "failed"
          /\ last'.msg = IF last'.p.size = BadSize
                         THEN BadSizeMsg(last'.mod) ELSE BadVsizeMsg
          /\ last'.calls = <<>>
          /\ UNCHANGED <<pools, volumes, filesystems>>]_vars

\* infini_fs was given a malformed size for a filesystem of an existing pool
\* while the array would have failed a lookup: no call was issued.
C16_Witness ==
    /\ last.mod = "fs" /\ last.p.size = BadSize /\ pools[last.p.pool].exists
    /\ last.fault = "pools.get"
    /\ last.out = "failed" /\ last.calls = <<>>

---------------------------------------------------------------------------
(* C17                                                                     *)

\* C17 as claimed: a state=present reconcile of a host that exists issues no
\* mutating call and reports changed=false, whatever wwns and volume it is
\* given.
C17_HostNoUpdate_Claimed ==
    (last.mod = "host" /\ last.p.state = "present" /\ TargetFound(last))
    => /\ MutatingCalls(last.calls) = <<>>
       /\ last.out = "unchanged"

\* C17 as amended: a state=present reconcile of a host that exists issues no
\* mutating call and leaves the host as it is, whatever wwns and volume it
\* is given; it reports changed=false, except that it ends with the
\* not-found error of the volume when a volume is named that does not exist.
C17_HostNoUpdate ==
    [][(Invoked("host") /\ last'.p.state = "present" /\ hosts[last'.p.name].exists)
       => /\ MutatingCalls(last'.calls) = <<>>
          /\ hosts' = hosts
          /\ IF last'.p.volume # "" /\ ~volumes[last'.p.volume].exists
             THEN last'.out = "failed" /\ last'.msg = NotFoundMsg(last')
             ELSE last'.out = "unchanged"]_vars

\* An existing host without ports and mappings was reconciled with wwns and
\* an existing volume: unchanged, still no port and no mapping.
C17_Witness ==
    /\ last.mod = "host" /\ last.p.state = "present" /\ TargetFound(last)
    /\ last.out = "unchanged"
    /\ last.p.wwns # <<>> /\ last.p.volume # ""
    /\ hosts[last.p.name].ports = <<>> /\ hosts[last.p.name].luns = {}

---------------------------------------------------------------------------
(* C18                                                                     *)

\* n times the call name op.
Repeat(op, n) == [i \in 1..n |-> op]

\* C18: a state=present reconcile of a host that does not exist issues
\* hosts.create, then one add_fc_port per supplied wwn in the order given,
\* then map_volume when a volume is supplied, and reports changed=true; the
\* host then exists with these ports and this mapping.  When the supplied
\* volume does not exist the invocation fails with the not-found error, has
\* issued no mutating call and the host does not exist.
C18_HostCreateOrder ==
    [][(Invoked("host") /\ last'.p.state = "present" /\ ~hosts[last'.p.name].exists)
       => LET p == last'.p
              host == hosts'[p.name]
          IN  IF p.volume # "" /\ ~volumes[p.volume].exists
              THEN /\ last'.out = "failed" /\ last'.msg = NotFoundMsg(last')
                   /\ MutatingCalls(last'.calls) = <<>>
                   /\ ~host.exists
              ELSE /\ last'.out = "changed"
                   /\ MutatingCalls(last'.calls) =
                        <<"hosts.create">>
                        \o Repeat("host.add_fc_port", Len(p.wwns))
                        \o (IF p.volume # "" THEN <<"host.map_volume">> ELSE <<>>)
                   /\ ArgsOf(last'.calls, "host.add_fc_port") = p.wwns
                   /\ host.exists /\ host.ports = p.wwns
                   /\ host.luns = IF p.volume # "" THEN {p.volume} ELSE {}]_vars

\* A host was created with two ports and a mapped volume.
C18_Witness ==
    /\ last.mod = "host" /\ last.out = "changed" /\ last.p.state = "present"
    /\ Len(last.p.wwns) = 2 /\ last.p.volume # ""
    /\ Count(last.calls, "host.add_fc_port") = 2
    /\ Count(last.calls, "host.map_volume") = 1
    /\ hosts[last.p.name].luns = {last.p.volume}

---------------------------------------------------------------------------
(* C19                                                                     *)

\* The reads of a field of a resource already looked up.
ReadOps ==
    {"pool.get_physical_capacity", "pool.get_virtual_capacity",
     "pool.get_ssd_enabled", "volume.get_size", "filesystem.get_size",
     "export.get_permissions"}

\* Call j of the log follows a mutating call.
AfterMutation(calls, j) ==
    \E i \in 1..(j - 1) : calls[i].op \in MutatingOps

\* C19 as claimed: in the call log of an invocation every lookup precedes
\* every mutating call.
C19_LookupThenAct_Claimed ==
    \A j \in 1..Len(last.calls) :
        last.calls[j].op \in LookupOps => ~AfterMutation(last.calls, j)

\* C19 as amended: in the call log of an invocation the lookups of main (the
\* reconciled resource and its parent) precede every mutating call; the one
\* lookup issued after a mutating call is the lookup of the volume to map in
\* create_host, which main has already made once before hosts.create; and
\* fields are read after a mutating call only by infini_pool, whose update
\* reads each field just before it updates it.
C19_LookupThenAct ==
    \A j \in 1..Len(last.calls) :
        /\ (last.calls[j].op \in LookupOps /\ AfterMutation(last.calls, j))
           => /\ last.mod = "host" /\ last.calls[j].op = "volumes.get"
              /\ \E k \in 1..(j - 1) :
                   /\ last.calls[k].op = "volumes.get"
                   /\ ~AfterMutation(last.calls, k)
        /\ (last.calls[j].op \in ReadOps /\ AfterMutation(last.calls, j))
           => last.mod = "pool"
        /\ (last.calls[j].op \in MutatingOps /\ last.mod \in Kinds)
           => \E k \in 1..(j - 1) : last.calls[k].op = TargetLookup[last.mod]

\* create_host looked the volume up once more after hosts.create and
\* add_fc_port.
C19_Witness ==
    /\ last.mod = "host" /\ last.out = "changed"
    /\ \E i, j \in 1..Len(last.calls) :
         /\ i < j
         /\ last.calls[i].op = "host.add_fc_port"
         /\ last.calls[j].op = "volumes.get"

---------------------------------------------------------------------------
(* C20                                                                     *)

\* Both concurrent invocations have exited with changed=true or changed=false.
BothDone ==
    \A i \in Procs : procs[i].pc = "done" /\ procs[i].out \in {"changed", "unchanged"}

\* The rounded (size, vsize) pair invocation i asks for.
DesiredPair(i) ==
    <<roundup(Capacity(procs[i].p.size), PoolAlign),
      roundup(Capacity(procs[i].p.vsize), PoolAlign)>>

\* C20 as claimed: when two state=present reconciles of the same existing
\* pool with different desired (size, vsize) pairs have run concurrently and
\* both completed, the pool's (physical, virtual) capacities are the rounded
\* desired pair of one of the two.
C20_LastWriterWins_Claimed ==
    (BothDone /\ DesiredPair(1) # DesiredPair(2))
    => \E i \in Procs : <<pools["p1"].phys, pools["p1"].virt>> = DesiredPair(i)

\* C20 as amended: after two such reconciles the physical capacity is the
\* rounded desired size of one of the two and the virtual capacity is the
\* rounded desired vsize of one of the two (the last writer wins for each
\* field; the two fields can come from different invocations).
C20_LastWriterWins ==
    (BothDone /\ DesiredPair(1) # DesiredPair(2))
    => /\ \E i \in Procs : pools["p1"].phys = DesiredPair(i)[1]
       /\ \E i \in Procs : pools["p1"].virt = DesiredPair(i)[2]

\* Both invocations completed with changed=true and the pool has the
\* physical capacity of the one and the virtual capacity of the other.
C20_Witness ==
    /\ BothDone
    /\ procs[1].out = "changed" /\ procs[2].out = "changed"
    /\ DesiredPair(1)[1] # DesiredPair(2)[1]
    /\ DesiredPair(1)[2] # DesiredPair(2)[2]
    /\ pools["p1"].phys = DesiredPair(1)[1]
    /\ pools["p1"].virt = DesiredPair(2)[2]

---------------------------------------------------------------------------
(* C21                                                                     *)

\* The permission list l has an entry for the client of p with the access
\* and no_root_squash p asks for.
HasEntryOf(l, p) ==
    \E k \in 1..Len(l) :
        /\ l[k].client = p.client
        /\ l[k].access = p.access_mode
        /\ l[k].no_root_squash = p.no_root_squash

\* Two concurrent state=present invocations for different clients have both
\* exited with changed=true.
BothChanged ==
    /\ BothDone
    /\ procs[1].out = "changed" /\ procs[2].out = "changed"
    /\ procs[1].p.client # procs[2].p.client

\* C21 as claimed: when two ExportClient reconciles with state=present for
\* different clients of one export have run concurrently and both reported
\* changed=true, the export's permission list has the entry of each.
C21_BothEntries_Claimed ==
    BothChanged
    => \A i \in Procs : HasEntryOf(exports["/data01"].perms, procs[i].p)

\* C21 as amended: after two such reconciles the permission list is the one
\* one of the two invocations sent, so it has the entry of that invocation;
\* the entry of the other can be missing.
C21_LastListWins ==
    BothChanged
    => \E i \in Procs :
          /\ exports["/data01"].perms = procs[i].client_list
          /\ HasEntryOf(exports["/data01"].perms, procs[i].p)

\* Both invocations reported changed=true and the list has no entry for the
\* client of the first: the second one's list replaced it.
C21_Witness ==
    /\ BothChanged
    /\ HasEntryOf(exports["/data01"].perms, procs[2].p)
    /\ \A k \in 1..Len(exports["/data01"].perms) :
          exports["/data01"].perms[k].client # procs[1].p.client

---------------------------------------------------------------------------
(* C22                                                                     *)

\* C22 as claimed: a reconcile of infini_export leaves an export alone that
\* has the path named in the invocation but exposes another filesystem than
\* the one named: it is neither deleted nor given other permissions, and no
\* mutating call is issued for it.
C22_PathAndFilesystem_Claimed ==
    [][(/\ Invoked("export")
        /\ exports[last'.p.name].exists
        /\ exports[last'.p.name].filesystem # last'.p.filesystem)
       => /\ exports'[last'.p.name] = exports[last'.p.name]
          /\ MutatingCalls(last'.calls) = <<>>]_vars

---------------------------------------------------------------------------
(* C23                                                                     *)

\* The next step is a reconcile of infini_export that supplies no
\* client_list.
NoListReconcile == Invoked("export") /\ last'.p.client_list.none

\* C23 as claimed: an Export reconcile that supplies no client_list never
\* issues a permission-replace call; when it creates the export it issues the
\* create call only, and on an existing export it issues no mutating call
\* and reports changed=false.
C23_NoClientList_Claimed ==
    [][NoListReconcile
       => /\ Count(last'.calls, "export.update_permissions") = 0
          /\ Count(last'.calls, "exports.create") > 0
               => MutatingCalls(last'.calls) = <<"exports.create">>
          /\ exports[last'.p.name].exists
               => /\ MutatingCalls(last'.calls) = <<>>
                  /\ last'.out = "unchanged"]_vars

\* C23 as amended: an Export reconcile that supplies no client_list never
\* issues a permission-replace call.  With state=present and an existing
\* filesystem, it issues the create call only when the export does not exist
\* (the export gets the array's default permissions), and on an existing
\* export it issues no mutating call, leaves the permissions as they are and
\* reports changed=false.  With state=absent the existing export is
\* deleted, and when the filesystem does not exist the reconcile fails.
C23_NoClientList ==
    [][NoListReconcile
       => /\ Count(last'.calls, "export.update_permissions") = 0
          /\ (last'.p.state = "present" /\ filesystems[last'.p.filesystem].exists)
               => IF exports[last'.p.name].exists
                  THEN /\ MutatingCalls(last'.calls) = <<>>
                       /\ last'.out = "unchanged"
                       /\ exports' = exports
                  ELSE /\ MutatingCalls(last'.calls) = <<"exports.create">>
                       /\ last'.out = "changed"
                       /\ exports'[last'.p.name].perms = ArrayDefaultPermissions
          /\ (last'.p.state = "absent" /\ filesystems[last'.p.filesystem].exists
              /\ exports[last'.p.name].exists)
               => MutatingCalls(last'.calls) = <<"export.delete">>
          /\ ~filesystems[last'.p.filesystem].exists
               => last'.out = "failed" /\ MutatingCalls(last'.calls) = <<>>]_vars

\* An export whose permissions are not the array's default was reconciled
\* with state=present and no client_list: unchanged, permissions kept.
C23_Witness ==
    /\ last.mod = "export" /\ last.p.state = "present" /\ last.p.client_list.none
    /\ last.out = "unchanged"
    /\ exports[last.p.name].exists
    /\ exports[last.p.name].perms # ArrayDefaultPermissions

---------------------------------------------------------------------------
(* C24                                                                     *)

\* The check of one field of a pool in invocation inv: `given` says whether
\* the field is compared, `differs` whether its value differs from the
\* desired one; get is the read call of the field, upd its update call and
\* want the value the update carries.
FieldReconciled(inv, given, differs, get, upd, want) ==
    /\ Count(inv.calls, get) = IF given THEN 1 ELSE 0
    /\ Count(inv.calls, upd) = IF given /\ differs THEN 1 ELSE 0
    /\ ArgsOf(inv.calls, upd) = IF given /\ differs THEN <<want>> ELSE <<>>

\* C24: for an existing pool and state=present, the physical and the
\* virtual capacity are each read and compared only when size, respectively
\* vsize, is supplied, and updated (to the desired capacity rounded up to
\* 6 * 64 KiB) only when they differ from it; the ssd flag is always read
\* and compared with ssd_cache and updated when different; every differing
\* field gets its own update call, fields not updated keep their value, and
\* changed is true iff at least one update call was issued.
C24_PoolFields ==
    [][(Invoked("pool") /\ last'.p.state = "present" /\ pools[last'.p.name].exists)
       => LET p == last'.p
              pool == pools[p.name]
              after == pools'[p.name]
              phys == roundup(Capacity(p.size), PoolAlign)
              virt == roundup(Capacity(p.vsize), PoolAlign)
          IN  /\ FieldReconciled(last', Given(p.size), pool.phys # phys,
                                 "pool.get_physical_capacity",
                                 "pool.update_physical_capacity", phys)
              /\ FieldReconciled(last', Given(p.vsize), pool.virt # virt,
                                 "pool.get_virtual_capacity",
                                 "pool.update_virtual_capacity", virt)
              /\ FieldReconciled(last', TRUE, pool.ssd # p.ssd_cache,
                                 "pool.get_ssd_enabled",
                                 "pool.update_ssd_enabled", p.ssd_cache)
              /\ after.phys = IF Given(p.size) THEN phys ELSE pool.phys
              /\ after.virt = IF Given(p.vsize) THEN virt ELSE pool.virt
              /\ after.ssd = p.ssd_cache
              /\ Len(MutatingCalls(last'.calls))
                   = Count(last'.calls, "pool.update_physical_capacity")
                     + Count(last'.calls, "pool.update_virtual_capacity")
                     + Count(last'.calls, "pool.update_ssd_enabled")
              /\ last'.out = IF MutatingCalls(last'.calls) # <<>>
                             THEN "changed" ELSE "unchanged"]_vars

\* An existing pool was reconciled with size and ssd_cache differing and
\* vsize not supplied: two update calls, the virtual capacity kept.
C24_Witness ==
    /\ last.mod = "pool" /\ last.p.state = "present" /\ last.out = "changed"
    /\ ~Given(last.p.vsize)
    /\ MutatingCalls(last.calls)
         = <<"pool.update_physical_capacity", "pool.update_ssd_enabled">>
    /\ pools[last.p.name].virt # pools[last.p.name].phys

---------------------------------------------------------------------------
(* C25                                                                     *)

\* The capacities create_pool is to send for parameters p.
CreateCapacities(p) ==
    LET oneTB == Capacity([n |-> 1, u |-> "TB"])
        size == Capacity(p.size)
        vsize == Capacity(p.vsize)
    IN  CASE ~Given(p.size) /\ ~Given(p.vsize)
               -> [physical_capacity |-> oneTB, virtual_capacity |-> oneTB]
          [] Given(p.size) /\ ~Given(p.vsize)
               -> [physical_capacity |-> size, virtual_capacity |-> size]
          [] ~Given(p.size) /\ Given(p.vsize)
               -> [physical_capacity |-> oneTB, virtual_capacity |-> vsize]
          [] Given(p.size) /\ Given(p.vsize)
               -> [physical_capacity |-> size, virtual_capacity |-> vsize]

\* C25: a state=present reconcile of a pool that does not exist issues one
\* create call with physical = virtual = 1TB when neither size nor vsize is
\* given, physical = virtual = size when only size is given, physical = 1TB
\* and virtual = vsize when only vsize is given, and physical = size and
\* virtual = vsize when both are given; the ssd-cache update call follows
\* the create exactly when ssd_cache is false, and changed=true is reported.
C25_CreateCapacities ==
    [][(Invoked("pool") /\ last'.p.state = "present" /\ ~pools[last'.p.name].exists)
       => /\ ArgsOf(last'.calls, "pools.create") = <<CreateCapacities(last'.p)>>
          /\ MutatingCalls(last'.calls)
               = IF last'.p.ssd_cache THEN <<"pools.create">>
                 ELSE <<"pools.create", "pool.update_ssd_enabled">>
          /\ pools'[last'.p.name].ssd = last'.p.ssd_cache
          /\ last'.out = "changed"]_vars

\* A pool was created from vsize alone with ssd_cache false: its physical
\* capacity is 1TB (on the array's boundary), its virtual capacity differs.
C25_Witness ==
    /\ last.mod = "pool" /\ last.p.state = "present"
    /\ ~Given(last.p.size) /\ Given(last.p.vsize) /\ ~last.p.ssd_cache
    /\ MutatingCalls(last.calls) = <<"pools.create", "pool.update_ssd_enabled">>
    /\ pools[last.p.name].phys = roundup(Capacity([n |-> 1, u |-> "TB"]), PoolAlign)
    /\ pools[last.p.name].virt # pools[last.p.name].phys

---------------------------------------------------------------------------
(* C26                                                                     *)

\* Dataset `before` exists and the reconcile inv left `after`: it is still
\* in its pool, and the only mutating calls are a size update or the delete.
PoolKept(inv, before, after, ops) ==
    /\ after.exists => after.pool = before.pool
    /\ \A i \in 1..Len(inv.calls) :
         inv.calls[i].op \in MutatingOps => inv.calls[i].op \in ops

\* C26: no reconcile of an existing volume or filesystem changes its owning
\* pool, whatever pool the invocation names: the only mutating calls issued
\* for it are the size update and the delete.
C26_PoolImmutable ==
    [][/\ (Invoked("vol") /\ volumes[last'.p.name].exists)
          => PoolKept(last', volumes[last'.p.name], volumes'[last'.p.name],
                      {"volume.update_size", "volume.delete"})
       /\ (Invoked("fs") /\ filesystems[last'.p.name].exists)
          => PoolKept(last', filesystems[last'.p.name], filesystems'[last'.p.name],
                      {"filesystem.update_size", "filesystem.delete"})]_vars

\* A volume of one pool was reconciled (state=present, with a new size) by
\* an invocation naming another existing pool: resized, still in its pool.
C26_Witness ==
    /\ last.mod = "vol" /\ last.p.state = "present" /\ last.out = "changed"
    /\ MutatingCalls(last.calls) = <<"volume.update_size">>
    /\ pools[last.p.pool].exists
    /\ volumes[last.p.name].exists
    /\ volumes[last.p.name].pool # last.p.pool

---------------------------------------------------------------------------
(* C27                                                                     *)

\* The entry parameters p ask for.
DesiredEntry(p) ==
    [client |-> p.client, access |-> p.access_mode,
     no_root_squash |-> p.no_root_squash]

\* C27: a state=present reconcile of infini_export_client for client k on an
\* existing export: when the list has entries for k and each already has the
\* desired access and no_root_squash, no permission-replace call is issued,
\* the list is left as it is and changed=false is reported; when an entry
\* for k differs, one permission-replace call is issued with the list in
\* which the entries for k have the desired access and no_root_squash and
\* every other entry is as before, and changed=true is reported; when the
\* list has no entry for k, one permission-replace call is issued with the
\* list extended at its end by the one entry {k, access, no_root_squash},
\* and changed=true is reported.
C27_Upsert ==
    [][(/\ Invoked("export_client") /\ last'.p.state = "present"
        /\ exports[last'.p.export].exists)
       => LET p == last'.p
              l == exports[p.export].perms
              after == exports'[p.export].perms
              K == {i \in 1..Len(l) : l[i].client = p.client}
          IN  /\ (K # {} /\ \A i \in K : l[i] = DesiredEntry(p))
                   => /\ MutatingCalls(last'.calls) = <<>>
                      /\ last'.out = "unchanged"
                      /\ after = l
              /\ (\E i \in K : l[i] # DesiredEntry(p))
                   => /\ MutatingCalls(last'.calls) = <<"export.update_permissions">>
                      /\ ArgsOf(last'.calls, "export.update_permissions") = <<after>>
                      /\ last'.out = "changed"
                      /\ Len(after) = Len(l)
                      /\ \A i \in 1..Len(l) :
                           after[i] = IF i \in K THEN DesiredEntry(p) ELSE l[i]
              /\ K = {}
                   => /\ MutatingCalls(last'.calls) = <<"export.update_permissions">>
                      /\ ArgsOf(last'.calls, "export.update_permissions") = <<after>>
                      /\ last'.out = "changed"
                      /\ after = Append(l, DesiredEntry(p))]_vars

\* The first of two entries, the one of client k, was overwritten in place:
\* changed, and the entry of the other client is still the second.
C27_Witness ==
    /\ last.mod = "export_client" /\ last.p.state = "present"
    /\ last.out = "changed"
    /\ Len(exports[last.p.export].perms) = 2
    /\ exports[last.p.export].perms[1] = DesiredEntry(last.p)
    /\ exports[last.p.export].perms[2].client # last.p.client

---------------------------------------------------------------------------
(* C28                                                                     *)

\* The next step adds an entry for a client the export has no entry for,
\* from arguments that leave out access_mode and no_root_squash.
AddsWithDefaults ==
    /\ Invoked("export_client") /\ last'.p.state = "present"
    /\ last'.args.access_mode = "unset" /\ last'.args.no_root_squash = "unset"
    /\ exports[last'.p.export].exists
    /\ \A i \in 1..Len(exports[last'.p.export].perms) :
         exports[last'.p.export].perms[i].client # last'.p.client

\* The entry at the end of the permission list of export e after the step.
AddedEntry(e) == exports'[e].perms[Len(exports'[e].perms)]

\* C28 as claimed: an entry added without explicit access_mode and
\* no_root_squash has access RW and no_root_squash = true.
C28_Defaults_Claimed ==
    [][AddsWithDefaults
       => AddedEntry(last'.p.export)
            = [client |-> last'.p.client, access |-> "RW", no_root_squash |-> TRUE]]_vars

\* C28 as amended: an entry added without explicit access_mode and
\* no_root_squash has access RW and no_root_squash = false (root squashed).
C28_Defaults ==
    [][AddsWithDefaults
       => /\ last'.out = "changed"
          /\ Len(exports'[last'.p.export].perms)
               = Len(exports[last'.p.export].perms) + 1
          /\ AddedEntry(last'.p.export)
               = [client |-> last'.p.client, access |-> "RW", no_root_squash |-> FALSE]]_vars

\* A client was added from arguments without access_mode and no_root_squash
\* to an export that had one entry, of another client.
C28_Witness ==
    /\ last.mod = "export_client" /\ last.p.state = "present"
    /\ last.args.access_mode = "unset" /\ last.args.no_root_squash = "unset"
    /\ last.out = "changed"
    /\ Len(exports[last.p.export].perms) = 2
    /\ exports[last.p.export].perms[1].client # last.p.client
    /\ exports[last.p.export].perms[2].client = last.p.client

---------------------------------------------------------------------------
(* C29                                                                     *)

\* The arguments of the calls of op in a call log that the array answered
\* without an error, in order.
DoneArgsOf(calls, op) ==
    LET sel == SelectSeq(calls, LAMBDA c : c.op = op /\ c.ret)
    IN  [i \in 1..Len(sel) |-> sel[i].arg]

\* Invocation inv of infini_host registered the host and then failed.
CreateFailedPartway(inv) ==
    /\ inv.mod = "host" /\ inv.out = "failed"
    /\ Count(inv.calls, "hosts.create") = 1

\* C29: when an add-port or map-volume call fails after hosts.create, the
\* invocation ends with the array's error, the host stays registered with
\* the ports added before the failing call and with no volume mapped, and
\* the next reconcile with the same parameters on an array that answers
\* every call reports changed=false, issues no mutating call and leaves the
\* host without the missing ports and the mapping.
C29_PartialHost ==
    [][/\ (Invoked("host") /\ CreateFailedPartway(last'))
          => LET host == hosts'[last'.p.name]
             IN  /\ last'.fault \in {"host.add_fc_port", "host.map_volume"}
                 /\ last'.msg = <<"APICommandException", last'.fault>>
                 /\ host.exists
                 /\ host.ports = DoneArgsOf(last'.calls, "host.add_fc_port")
                 /\ host.luns = {}
                 /\ last'.fault = "host.add_fc_port"
                      => /\ Len(host.ports) < Len(last'.p.wwns)
                         /\ host.ports = SubSeq(last'.p.wwns, 1, Len(host.ports))
                 /\ last'.fault = "host.map_volume"
                      => host.ports = last'.p.wwns /\ last'.p.volume # ""
       /\ (/\ CreateFailedPartway(last)
           /\ Invoked("host") /\ last'.p = last.p /\ last'.fault = "none")
          => /\ last'.out = "unchanged"
             /\ MutatingCalls(last'.calls) = <<>>
             /\ hosts' = hosts]_vars

\* A host whose creation failed at its second port was reconciled again
\* with the same parameters: unchanged, one port of two, no volume mapped.
C29_Witness ==
    /\ last.mod = "host" /\ last.p.state = "present" /\ last.fault = "none"
    /\ last.out = "unchanged"
    /\ hosts[last.p.name].exists
    /\ Len(last.p.wwns) = 2
    /\ hosts[last.p.name].ports = SubSeq(last.p.wwns, 1, 1)
    /\ last.p.volume # "" /\ hosts[last.p.name].luns = {}

---------------------------------------------------------------------------
(* C30                                                                     *)

\* The create calls of infini_vol and infini_fs.
DatasetCreateOps == {"volumes.create", "filesystems.create"}

\* C30 as claimed: every create call of infini_vol and infini_fs is issued
\* with an existing pool, never with None, also when another actor deletes
\* the pool between main's lookup and the lookup of the create step.
C30_CreateWithPool_Claimed ==
    last.mod \in {"vol", "fs"}
    => \A i \in 1..Len(last.calls) :
          last.calls[i].op \in DatasetCreateOps => last.calls[i].arg # ""

---------------------------------------------------------------------------
(* C31                                                                     *)

\* The process of the invocation has ended.
Ended == procs.pc \in {"exited", "end"}

\* The invocation ended by exit_json or fail_json with one report and
\* issued no call after it.
OneOutcome ==
    /\ procs.pc = "exited"
    /\ Len(procs.reports) = 1
    /\ procs.reports[1] \in {"changed", "unchanged", "failed"}
    /\ procs.late = 0

\* C31: every invocation of every module, for every combination of
\* parameters and array state, ends; when it has ended it has reported
\* exactly one outcome (changed=true, changed=false or an error) and it has
\* issued no call to the array after the report.  The report and the calls
\* of the if/elif chain are those main as a whole computes.
C31_OneOutcome ==
    /\ [](Ended => OneOutcome)
    /\ [](procs.pc = "dispatch" => procs.reports = <<>>)
    /\ [][procs.pc = "dispatch"
           => /\ procs'.reports = <<MainOf(play, procs.p, "none").out>>
              /\ procs'.calls = MainOf(play, procs.p, "none").calls]_vars
    /\ (~Ended ~> Ended)

\* infini_vol ended with 'Pool {} not found' for state=present and a volume
\* that does not exist: the create branch below the check was not entered.
C31_Witness ==
    /\ play = "volume" /\ procs.pc = "exited"
    /\ procs.reports = <<"failed">>
    /\ procs.p.state = "present" /\ ~volumes[procs.p.name].exists
    /\ ~pools[procs.p.pool].exists
    /\ Count(procs.calls, "volumes.create") = 0

===========================================================================
